---- MODULE Spec2Model ----
(***************************************************************************)
(* A model of lib/Sema/TypeCheckDeclObjC.cpp: the decision whether, why    *)
(* and how a Swift declaration is exposed to Objective-C.                  *)
(*                                                                         *)
(* The functions of the file are operators computed as the code computes   *)
(* them.  A call is one step: the arguments are drawn by Init (pc =        *)
(* "ready"), the action of the called function applies it and stores what  *)
(* it returned, what it emitted to the diagnostic engine and what it did   *)
(* to the declaration (pc = "done").                                       *)
(***************************************************************************)
EXTENDS Integers, Sequences, FiniteSets, TLC

VARIABLES
    LangOpts,        \* ASTContext::LangOpts, the language-mode flags
    D,               \* the declaration the call is about, as the call left it
    pre,             \* the same declaration as the call found it
    args,            \* the other arguments of the call
    pc,              \* "ready" before the call, "done" after it
    op,              \* the function called
    reason,          \* Optional<ObjCReason> returned by shouldMarkAsObjC
    result,          \* the bool returned by a representability check
    errorConvention, \* the Optional<ForeignErrorConvention> out-parameter
    Diags,           \* the diagnostics emitted by the call, in order
    fatal,           \* the call ran into llvm_unreachable
    Stdlib,          \* which well-known library types can be found
    scanned,         \* how many parameters isParamListRepresentableInObjC
                     \* looked at
    HasCheckedBridgeFunctions, \* TypeChecker::HasCheckedBridgeFunctions
    recordedObjCMethods, \* what ClassDecl::recordObjCMethod was given
    ObjCMethods,     \* SourceFile::ObjCMethods, as the pushes made to it
    calls,           \* how many calls of markAsObjC, or of isCIntegerType,
                     \* were made
    bridgeChecks,    \* how many times checkBridgedFunctions went past its
                     \* test of the flag
    CIntegerTypes,   \* TypeChecker::CIntegerTypes
    lookups          \* how many times the standard library was searched
                     \* for the integer types

\* what the type checker keeps outside the declaration
tables == <<HasCheckedBridgeFunctions, recordedObjCMethods, ObjCMethods,
            calls, bridgeChecks, CIntegerTypes, lookups>>

vars == <<LangOpts, D, pre, args, pc, op, reason, result, errorConvention,
          Diags, fatal, Stdlib, scanned, tables>>

\* nothing was marked yet
NothingMarked ==
    /\ HasCheckedBridgeFunctions = FALSE
    /\ recordedObjCMethods = <<>>
    /\ ObjCMethods = <<>>
    /\ calls = 0
    /\ bridgeChecks = 0
    /\ CIntegerTypes = {}
    /\ lookups = 0

(***************************************************************************)
(* Bounds of the model.                                                    *)
(***************************************************************************)
\* the most attributes a declaration carries
MaxAttrs == 2
\* the most parameters a function has
MaxParams == 3
\* the most protocol requirements a declaration witnesses
MaxReqs == 2
\* the most calls of markAsObjC on a declaration
MaxCalls == 2
\* the most calls of isCIntegerType
MaxQueries == 3

(***************************************************************************)
(* ObjCReason.                                                             *)
(***************************************************************************)
ObjCReasonKinds ==
    {"ExplicitlyCDecl", "ExplicitlyDynamic", "ExplicitlyObjC",
     "ExplicitlyIBOutlet", "ExplicitlyIBAction", "ExplicitlyNSManaged",
     "MemberOfObjCProtocol", "OverridesObjC", "WitnessToObjC",
     "ImplicitlyObjC", "ExplicitlyIBInspectable", "ExplicitlyGKInspectable",
     "MemberOfObjCExtension", "MemberOfObjCMembersClass",
     "MemberOfObjCSubclass", "Accessor"}

NoReq == "NoReq"

\* llvm::None of Optional<ObjCReason>
None == [kind |-> "None", req |-> NoReq]

ObjCReason(k) == [kind |-> k, req |-> NoReq]

witnessToObjC(r) == [kind |-> "WitnessToObjC", req |-> r]

\* a mutant of shouldDiagnoseObjCReason: the two inspectable attributes are
\* diagnosed whatever the language mode
shouldDiagnoseObjCReason_NoLegacy(k, opts) ==
    k \notin {"MemberOfObjCSubclass", "MemberOfObjCMembersClass", "Accessor"}

shouldDiagnoseObjCReason(k, opts) ==
    CASE k \in {"ExplicitlyCDecl", "ExplicitlyDynamic", "ExplicitlyObjC",
                "ExplicitlyIBOutlet", "ExplicitlyIBAction",
                "ExplicitlyNSManaged", "MemberOfObjCProtocol",
                "OverridesObjC", "WitnessToObjC", "ImplicitlyObjC",
                "MemberOfObjCExtension"} -> TRUE
      [] k \in {"ExplicitlyIBInspectable", "ExplicitlyGKInspectable"} ->
             ~opts.EnableSwift3ObjCInference
      [] k \in {"MemberOfObjCSubclass", "MemberOfObjCMembersClass",
                "Accessor"} -> FALSE

\* What getObjCDiagnosticAttrKind yields: the reason's number (here the reason
\* itself), or, for a reason that is never diagnosed, llvm_unreachable.
Unreachable == "llvm_unreachable"

getObjCDiagnosticAttrKind(k) ==
    IF k \in {"MemberOfObjCSubclass", "MemberOfObjCMembersClass", "Accessor"}
    THEN Unreachable
    ELSE k

(***************************************************************************)
(* Diagnostics.  A diagnostic is its id, the attribute kind it was given   *)
(* (NoKind when it takes none), the parameter it is located at (0: the     *)
(* declaration) and its integer argument (0: none).                        *)
(***************************************************************************)
NoKind == "-"

Diag(id) == [id |-> id, attrKind |-> NoKind, loc |-> 0, arg |-> 0]

DiagK(id, k) == [id |-> id, attrKind |-> k, loc |-> 0, arg |-> 0]

DiagAt(id, k, loc, arg) == [id |-> id, attrKind |-> k, loc |-> loc, arg |-> arg]

\* the note that says why @objc is being applied
describeObjCReason(VD, k) ==
    CASE k = "MemberOfObjCProtocol" ->
             <<Diag("objc_inferring_on_objc_protocol_member")>>
      [] k = "OverridesObjC" -> <<Diag("objc_overriding_objc_decl")>>
      [] k = "WitnessToObjC" -> <<Diag("objc_witness_objc_requirement")>>
      [] OTHER -> <<>>

(***************************************************************************)
(* Declarations, as far as this file reads them.                           *)
(***************************************************************************)
\* ObjCClassKind, the result of ClassDecl::checkObjCAncestry
ObjCClassKinds == {"NonObjC", "ObjCMembers", "ObjCWithSwiftRoot", "ObjC"}

\* AccessLevel, in its order
Private == 0
FilePrivate == 1
Internal == 2
Public == 3
Open == 4
AccessLevels == Private..Open

NoName == "NoName"
\* ForeignErrorConvention: its kind, the index of the error parameter,
\* whether that parameter is owned, whether it replaces a parameter with
\* Void, its type and, for the result kinds, the result type
Convention(kind, index, owned, replaced, paramType, resultType) ==
    [kind |-> kind, errorParameterIndex |-> index, isOwned |-> owned,
     isReplaced |-> replaced, errorParameterType |-> paramType,
     resultType |-> resultType]

\* a null CanType
NullType == "null"

\* llvm::None of Optional<ForeignErrorConvention>
NoConvention == Convention("None", 0, FALSE, FALSE, NullType, NullType)

\* no overridden declaration (getOverriddenDecl() is null)
NoDecl ==
    [exists |-> FALSE, isObjC |-> FALSE,
     foreignErrorConvention |-> NoConvention]

\* an overridden declaration: whether it is @objc and its stored convention
Overridden(isObjC, convention) ==
    [exists |-> TRUE, isObjC |-> isObjC,
     foreignErrorConvention |-> convention]

\* The attributes shouldMarkAsObjC asks a declaration for.
InferAttrs ==
    {"ObjC", "IBOutlet", "IBAction", "IBInspectable", "GKInspectable",
     "NSManaged", "NonObjC", "Dynamic"}

\* The declaration context: a source file, a protocol, a class, a struct, or
\* an extension (of a class when extendsClass). The class* fields are those
\* of getAsClassOrClassExtensionContext().
FileContext ==
    [kind |-> "File", protocolIsObjC |-> FALSE, extAttrs |-> {},
     extendsClass |-> FALSE, extHasWhereClause |-> FALSE,
     extGenericAncestor |-> "None", classAttrs |-> {},
     classIsForeign |-> FALSE, classAncestry |-> "NonObjC",
     classForeignKind |-> "Normal"]

ProtocolContext(isObjC) ==
    [FileContext EXCEPT !.kind = "Protocol", !.protocolIsObjC = isObjC]

StructContext == [FileContext EXCEPT !.kind = "Struct"]

ClassContext(classAttrs, isForeign, ancestry) ==
    [FileContext EXCEPT !.kind = "Class", !.classAttrs = classAttrs,
                        !.classIsForeign = isForeign,
                        !.classAncestry = ancestry]

ClassExtensionContext(extAttrs, classAttrs, isForeign, ancestry) ==
    [ClassContext(classAttrs, isForeign, ancestry) EXCEPT
        !.kind = "Extension", !.extendsClass = TRUE, !.extAttrs = extAttrs]

StructExtensionContext(extAttrs) ==
    [FileContext EXCEPT !.kind = "Extension", !.extAttrs = extAttrs]

\* DeclContext::getAsClassOrClassExtensionContext, as a test
isClassOrClassExtensionContext(DC) ==
    DC.kind = "Class" \/ (DC.kind = "Extension" /\ DC.extendsClass)

\* A member declaration: a method of a plain Swift class, internal, with no
\* attribute, overriding and witnessing nothing.
PlainMember ==
    [kind |-> "Func", attrs |-> {}, dynamicImplicit |-> FALSE,
     objcName |-> NoName, isObjC |-> FALSE,
     foreignErrorConvention |-> NoConvention,
     DC |-> ClassContext({}, FALSE, "NonObjC"),
     overridden |-> NoDecl,
     witnessed |-> <<>>,
     isInvalid |-> FALSE, isOperator |-> FALSE, isImplicit |-> FALSE,
     access |-> Internal, accessorKind |-> "NotAccessor"]

\* A class declaration.
PlainClass ==
    [kind |-> "Class", attrs |-> {}, objcName |-> NoName, isObjC |-> FALSE,
     foreignErrorConvention |-> NoConvention,
     isGenericContext |-> FALSE, ancestry |-> "NonObjC"]

\* AccessorDecl::isGetterOrSetter
isGetterOrSetter(VD) ==
    VD.kind = "Accessor" /\ VD.accessorKind \in {"Get", "Set"}

(***************************************************************************)
(* shouldMarkClassAsObjC and shouldMarkAsObjC.  Each yields the reason it  *)
(* returns, the diagnostics it emits and the attributes it leaves on the   *)
(* declaration.                                                            *)
(***************************************************************************)
Inferred(r, diags, attrs) == [reason |-> r, diags |-> diags, attrs |-> attrs]

\* a mutant of demotesToRuntimeName: any @objc on a class with generic
\* ancestry only names it
demotesToRuntimeName_Always(CD) ==
    CD.ancestry = "ObjCMembers"

\* @objc with a name on a non-generic subclass of a generic class only
\* controls the runtime name
demotesToRuntimeName(CD) ==
    /\ CD.ancestry = "ObjCMembers"
    /\ CD.objcName # NoName
    /\ ~CD.isGenericContext

shouldMarkClassAsObjC(CD, opts) ==
    IF "ObjC" \in CD.attrs
    THEN IF demotesToRuntimeName(CD)
         THEN Inferred(None, <<>>, CD.attrs \cup {"ObjCRuntimeName"})
         ELSE Inferred(ObjCReason("ExplicitlyObjC"),
                  (IF CD.ancestry = "ObjCMembers"
                   THEN <<Diag("objc_for_generic_class")>> ELSE <<>>)
                  \o (IF CD.ancestry = "ObjCWithSwiftRoot"
                         /\ opts.EnableObjCAttrRequiresFoundation
                      THEN <<Diag("invalid_objc_swift_rooted_class")>>
                      ELSE <<>>)
                  \o (IF CD.ancestry = "ObjCWithSwiftRoot"
                         /\ ~opts.EnableObjCInterop
                      THEN <<Diag("objc_interop_disabled")>> ELSE <<>>),
                  CD.attrs)
    ELSE IF CD.ancestry \in {"ObjCWithSwiftRoot", "ObjC"}
         THEN Inferred(ObjCReason("ImplicitlyObjC"), <<>>, CD.attrs)
         ELSE Inferred(None, <<>>, CD.attrs)

\* a mutant of canInferImplicitObjC: file-private declarations are inferred
canInferImplicitObjC_FilePrivate(VD, allowImplicit) ==
    /\ ~VD.isInvalid
    /\ ~VD.isOperator
    /\ ~(~allowImplicit /\ VD.isImplicit)
    /\ ~(VD.access < FilePrivate)

\* the local function of shouldMarkAsObjC
canInferImplicitObjC(VD, allowImplicit) ==
    /\ ~VD.isInvalid
    /\ ~VD.isOperator
    /\ ~(~allowImplicit /\ VD.isImplicit)
    /\ ~(VD.access <= FilePrivate)

\* a mutant of isNonObjC: @nonobjc on the enclosing extension is not looked at
isNonObjC_DeclOnly(VD) ==
    "NonObjC" \in VD.attrs

\* @nonobjc on the declaration or on the extension it is in
isNonObjC(VD) ==
    \/ "NonObjC" \in VD.attrs
    \/ (VD.DC.kind = "Extension" /\ "NonObjC" \in VD.DC.extAttrs)

isMemberOfObjCClassExtension(VD) ==
    /\ VD.DC.kind = "Extension"
    /\ isClassOrClassExtensionContext(VD.DC)
    /\ "ObjC" \in VD.DC.extAttrs

isMemberOfObjCMembersClass(VD) ==
    /\ isClassOrClassExtensionContext(VD.DC)
    /\ "ObjCMembers" \in VD.DC.classAttrs

\* a mutant of inferFromDynamic: outside Swift 3 inference an explicit
\* 'dynamic' is an error and infers nothing
inferFromDynamic_NoRecovery(VD, opts) ==
    IF VD.dynamicImplicit
    THEN Inferred(ObjCReason("ImplicitlyObjC"), <<>>, VD.attrs)
    ELSE IF opts.EnableSwift3ObjCInference
         THEN Inferred(ObjCReason("ExplicitlyDynamic"),
                  IF opts.WarnSwift3ObjCInference # "None"
                     /\ ~isGetterOrSetter(VD)
                  THEN <<Diag("objc_inference_swift3_dynamic")>> ELSE <<>>,
                  VD.attrs)
         ELSE Inferred(None, <<Diag("dynamic_requires_objc")>>, VD.attrs)

\* Infer '@objc' for 'dynamic' members.
inferFromDynamic(VD, opts) ==
    IF VD.dynamicImplicit
    THEN Inferred(ObjCReason("ImplicitlyObjC"), <<>>, VD.attrs)
    ELSE IF opts.EnableSwift3ObjCInference
         THEN Inferred(ObjCReason("ExplicitlyDynamic"),
                  IF opts.WarnSwift3ObjCInference # "None"
                     /\ ~isGetterOrSetter(VD)
                  THEN <<Diag("objc_inference_swift3_dynamic")>> ELSE <<>>,
                  VD.attrs)
         ELSE Inferred(ObjCReason("ImplicitlyObjC"),
                  <<Diag("dynamic_requires_objc")>>, VD.attrs)

\* The Swift 3 inference for members of classes whose hierarchy originates
\* in Objective-C.
inferFromSwift3(VD, allowImplicit, opts) ==
    IF ~opts.EnableSwift3ObjCInference THEN None
    ELSE IF ~canInferImplicitObjC(VD, allowImplicit) THEN None
    ELSE IF isClassOrClassExtensionContext(VD.DC)
         THEN IF VD.DC.classIsForeign THEN None
              ELSE IF VD.DC.classAncestry # "NonObjC"
                   THEN IF VD.isImplicit
                        THEN ObjCReason("ImplicitlyObjC")
                        ELSE ObjCReason("MemberOfObjCSubclass")
                   ELSE None
         ELSE None

shouldMarkAsObjC(VD, allowImplicit, opts) ==
    LET silent(k) == Inferred(ObjCReason(k), <<>>, VD.attrs) IN
    IF VD.kind = "Class" THEN shouldMarkClassAsObjC(VD, opts)
    ELSE IF "ObjC" \in VD.attrs THEN silent("ExplicitlyObjC")
    ELSE IF "IBOutlet" \in VD.attrs THEN silent("ExplicitlyIBOutlet")
    ELSE IF "IBAction" \in VD.attrs THEN silent("ExplicitlyIBAction")
    ELSE IF "IBInspectable" \in VD.attrs
         THEN silent("ExplicitlyIBInspectable")
    ELSE IF "GKInspectable" \in VD.attrs
         THEN silent("ExplicitlyGKInspectable")
    ELSE IF "NSManaged" \in VD.attrs THEN silent("ExplicitlyNSManaged")
    ELSE IF VD.DC.kind = "Protocol" /\ VD.DC.protocolIsObjC
         THEN silent("MemberOfObjCProtocol")
    ELSE IF isNonObjC(VD) THEN Inferred(None, <<>>, VD.attrs)
    ELSE IF isMemberOfObjCClassExtension(VD)
         THEN silent("MemberOfObjCExtension")
    ELSE IF isMemberOfObjCMembersClass(VD)
            /\ canInferImplicitObjC(VD, allowImplicit)
         THEN silent("MemberOfObjCMembersClass")
    ELSE IF VD.overridden.exists /\ VD.overridden.isObjC
         THEN silent("OverridesObjC")
    ELSE IF isClassOrClassExtensionContext(VD.DC) /\ VD.witnessed # <<>>
         THEN Inferred(witnessToObjC(Head(VD.witnessed)), <<>>, VD.attrs)
    ELSE IF "Dynamic" \in VD.attrs THEN inferFromDynamic(VD, opts)
    ELSE Inferred(inferFromSwift3(VD, allowImplicit, opts), <<>>, VD.attrs)

(***************************************************************************)
(* Types, as far as this file asks about them: the shape of the type, its  *)
(* ForeignRepresentableKind in Objective-C, and for an Optional the shape  *)
(* and kind of its object type.  An existential type has the superclass    *)
(* and the protocols of its layout.                                        *)
(***************************************************************************)
ForeignRepresentableKinds ==
    {"None", "Trivial", "Object", "Bridged", "BridgedError", "StaticBridged"}

Ty(name, shape, repr) ==
    [name |-> name, shape |-> shape, repr |-> repr,
     objectShape |-> "NotOptional", objectRepr |-> "None",
     throws |-> FALSE, superclass |-> "None", protocols |-> <<>>]

OptionalTy(T) ==
    [Ty("Optional", "Optional", T.repr) EXCEPT
        !.objectShape = T.shape, !.objectRepr = T.repr]

ExistentialTy(superclass, protocols) ==
    [Ty("Existential", "Existential", "None") EXCEPT
        !.superclass = superclass, !.protocols = protocols]

VoidTy == Ty("Void", "Void", "None")
TupleTy == Ty("Tuple", "Tuple", "None")
IntTy == Ty("Int", "Struct", "Trivial")
StringTy == Ty("String", "Struct", "Bridged")
NSObjectTy == Ty("NSObject", "Class", "Object")
ErrorExistentialTy == Ty("Error", "Existential", "BridgedError")
ArrayTy == Ty("Array", "Struct", "StaticBridged")
SwiftStructTy == Ty("SwiftStruct", "Struct", "None")
SwiftEnumTy == Ty("SwiftEnum", "Enum", "None")
SwiftClassTy == Ty("SwiftClass", "SwiftClass", "None")
AnyTy == Ty("Any", "Any", "None")
GenericParamTy == Ty("T", "TypeParameter", "None")
BlockTy == Ty("Block", "Function", "Object")
SwiftFunctionTy == Ty("SwiftFunction", "Function", "None")
ThrowingFunctionTy ==
    [Ty("ThrowingFunction", "Function", "None") EXCEPT !.throws = TRUE]
NeverTy == Ty("Never", "Uninhabited", "None")
ErrorTy == Ty("<<error type>>", "Error", "None")

\* Type::isRepresentableIn(ForeignLanguage::ObjectiveC, dc)
isRepresentableIn(T) == T.repr # "None"

isVoid(T) == T.shape = "Void"

\* one diagnostic that says why the type cannot be represented, or none
diagnoseTypeNotRepresentableInObjC(T) ==
    CASE T.shape = "Void" -> <<Diag("not_objc_empty_tuple")>>
      [] T.shape = "Tuple" -> <<Diag("not_objc_tuple")>>
      [] T.shape = "SwiftClass" -> <<Diag("not_objc_swift_class")>>
      [] T.shape = "Class" -> <<>>
      [] T.shape = "Struct" -> <<Diag("not_objc_swift_struct")>>
      [] T.shape = "Enum" -> <<Diag("not_objc_swift_enum")>>
      [] T.shape = "Any" -> <<Diag("not_objc_empty_protocol_composition")>>
      [] T.shape = "Existential" ->
             IF T.superclass = "Swift"
             THEN <<Diag("not_objc_class_constraint")>>
             ELSE LET bad == {i \in DOMAIN T.protocols :
                                 T.protocols[i] \in {"Error", "Swift"}}
                      first == CHOOSE i \in bad : \A j \in bad : i <= j
                  IN IF bad = {} THEN <<>>
                     ELSE IF T.protocols[first] = "Error"
                          THEN <<Diag("not_objc_error_protocol_composition")>>
                          ELSE <<Diag("not_objc_protocol")>>
      [] T.shape = "TypeParameter" -> <<Diag("not_objc_generic_type_param")>>
      [] T.shape = "Function" ->
             IF T.throws THEN <<Diag("not_objc_function_type_throwing")>>
             ELSE <<Diag("not_objc_function_type_param")>>
      [] OTHER -> <<>>

(***************************************************************************)
(* Functions and their parameter lists.                                    *)
(***************************************************************************)
Param(T) == [isVariadic |-> FALSE, isInOut |-> FALSE, type |-> T]
VariadicParam(T) == [isVariadic |-> TRUE, isInOut |-> FALSE, type |-> T]
InOutParam(T) == [isVariadic |-> FALSE, isInOut |-> TRUE, type |-> T]

\* A function: a method of a plain Swift class returning Void.
PlainFunc ==
    [kind |-> "Func", attrs |-> {}, dynamicImplicit |-> FALSE,
     objcName |-> NoName, isObjC |-> FALSE,
     foreignErrorConvention |-> NoConvention,
     DC |-> ClassContext({}, FALSE, "NonObjC"),
     overridden |-> NoDecl, witnessed |-> <<>>,
     isInvalid |-> FALSE, isOperator |-> FALSE, isImplicit |-> FALSE,
     access |-> Internal, accessorKind |-> "NotAccessor",
     storageIsObjC |-> FALSE, storageKind |-> "Var",
     hasGenericParams |-> FALSE, params |-> <<>>, resultType |-> VoidTy,
     hasThrows |-> FALSE, failability |-> "OTK_None",
     isObjCZeroParameterWithLongSelector |-> FALSE,
     selectorPieces |-> <<>>]

\* The result of a check of the parameter list: what it returns, what it
\* emits and how many parameters its loop looked at.
Scan(r, diags, n) == [result |-> r, diags |-> diags, scanned |-> n]

\* a mutant of diagnoseFunctionParamNotRepresentable: only the first
\* parameter is complained about
diagnoseFunctionParamNotRepresentable_FirstOnly(AFD, NumParams, ParamIndex, P, Reason, opts) ==
    IF ~shouldDiagnoseObjCReason(Reason, opts) \/ ParamIndex > 0 THEN <<>>
    ELSE (IF NumParams = 1
          THEN <<DiagK("objc_invalid_on_func_single_param_type",
                       getObjCDiagnosticAttrKind(Reason))>>
          ELSE <<DiagAt("objc_invalid_on_func_param_type",
                        getObjCDiagnosticAttrKind(Reason), 0,
                        ParamIndex + 1)>>)
         \o diagnoseTypeNotRepresentableInObjC(P.type)
         \o describeObjCReason(AFD, Reason)

diagnoseFunctionParamNotRepresentable(AFD, NumParams, ParamIndex, P, Reason, opts) ==
    IF ~shouldDiagnoseObjCReason(Reason, opts) THEN <<>>
    ELSE (IF NumParams = 1
          THEN <<DiagK("objc_invalid_on_func_single_param_type",
                       getObjCDiagnosticAttrKind(Reason))>>
          ELSE <<DiagAt("objc_invalid_on_func_param_type",
                        getObjCDiagnosticAttrKind(Reason), 0,
                        ParamIndex + 1)>>)
         \o diagnoseTypeNotRepresentableInObjC(P.type)
         \o describeObjCReason(AFD, Reason)

\* a mutant of isErrorParameterReplacedWithVoid: a non-throwing override is
\* allowed the '()' too
isReplacedErrorParameter_NoThrows(AFD, param, ParamIndex) ==
    /\ isVoid(param.type)
    /\ AFD.overridden.exists
    /\ AFD.overridden.foreignErrorConvention # NoConvention
    /\ AFD.overridden.foreignErrorConvention.isReplaced
    /\ AFD.overridden.foreignErrorConvention.errorParameterIndex = ParamIndex

\* '()' is permitted when this method overrides a method with a foreign error
\* convention that replaces NSErrorPointer with () and this is the replaced
\* parameter
isReplacedErrorParameter(AFD, param, ParamIndex) ==
    /\ isVoid(param.type)
    /\ AFD.hasThrows
    /\ AFD.overridden.exists
    /\ AFD.overridden.foreignErrorConvention # NoConvention
    /\ AFD.overridden.foreignErrorConvention.isReplaced
    /\ AFD.overridden.foreignErrorConvention.errorParameterIndex = ParamIndex

\* the loop of isParamListRepresentableInObjC from parameter ParamIndex on
RECURSIVE paramLoop(_, _, _, _, _, _, _)
paramLoop(AFD, PL, Reason, opts, ParamIndex, IsObjC, diags) ==
    LET Diagnose == shouldDiagnoseObjCReason(Reason, opts)
        NumParams == Len(PL)
        param == PL[ParamIndex + 1]
        structural(id) ==
            LET emitted ==
                    IF Diagnose /\ shouldDiagnoseObjCReason(Reason, opts)
                    THEN <<DiagAt(id, getObjCDiagnosticAttrKind(Reason),
                                  ParamIndex + 1, 0)>>
                         \o describeObjCReason(AFD, Reason)
                    ELSE <<>>
            IN Scan(FALSE, diags \o emitted, ParamIndex + 1)
    IN IF ParamIndex = NumParams THEN Scan(IsObjC, diags, ParamIndex)
       ELSE IF param.isVariadic
            THEN structural("objc_invalid_on_func_variadic")
       ELSE IF param.isInOut
            THEN structural("objc_invalid_on_func_inout")
       ELSE IF isRepresentableIn(param.type)
            THEN paramLoop(AFD, PL, Reason, opts, ParamIndex + 1, IsObjC,
                           diags)
       ELSE IF isReplacedErrorParameter(AFD, param, ParamIndex)
            THEN paramLoop(AFD, PL, Reason, opts, ParamIndex + 1, IsObjC,
                           diags)
       ELSE IF ~Diagnose THEN Scan(FALSE, diags, ParamIndex + 1)
       ELSE paramLoop(AFD, PL, Reason, opts, ParamIndex + 1, FALSE,
                      diags \o diagnoseFunctionParamNotRepresentable(
                                   AFD, NumParams, ParamIndex, param, Reason,
                                   opts))

isParamListRepresentableInObjC(AFD, PL, Reason, opts) ==
    paramLoop(AFD, PL, Reason, opts, 0, TRUE, <<>>)

(***************************************************************************)
(* The three isRepresentableInObjC and canBeRepresentedInObjC.  Each       *)
(* yields what it returns, the error convention it leaves in its           *)
(* out-parameter and the diagnostics it emits.                             *)
(***************************************************************************)
Check(hit, diags) == [hit |-> hit, diags |-> diags]

Rep(r, conv, diags) == [result |-> r, convention |-> conv, diags |-> diags]

\* CF types cannot have @objc methods
checkObjCInForeignClassContext(VD, Reason, opts) ==
    LET Diagnose == shouldDiagnoseObjCReason(Reason, opts)
        complain(id) ==
            IF Diagnose
            THEN <<DiagK(id, getObjCDiagnosticAttrKind(Reason))>>
                 \o describeObjCReason(VD, Reason)
            ELSE <<>>
    IN IF ~isClassOrClassExtensionContext(VD.DC) THEN Check(FALSE, <<>>)
       ELSE CASE VD.DC.classForeignKind = "Normal" -> Check(FALSE, <<>>)
              [] VD.DC.classForeignKind = "CFType" ->
                     Check(TRUE, complain("objc_invalid_on_foreign_class"))
              [] VD.DC.classForeignKind = "RuntimeOnly" ->
                     Check(TRUE, complain("objc_in_objc_runtime_visible"))

checkObjCWithGenericParams(AFD, Reason, opts) ==
    IF AFD.hasGenericParams
    THEN Check(TRUE,
               IF shouldDiagnoseObjCReason(Reason, opts)
               THEN <<DiagK("objc_invalid_with_generic_params",
                            getObjCDiagnosticAttrKind(Reason))>>
                    \o describeObjCReason(AFD, Reason)
               ELSE <<>>)
    ELSE Check(FALSE, <<>>)

checkObjCInExtensionContext(value, diagnose) ==
    IF value.DC.kind # "Extension" THEN Check(FALSE, <<>>)
    ELSE IF value.DC.extHasWhereClause
         THEN Check(TRUE, IF diagnose
                          THEN <<Diag("objc_in_extension_context")>>
                          ELSE <<>>)
    ELSE IF value.DC.extGenericAncestor = "Swift"
         THEN Check(TRUE, IF diagnose
                          THEN <<Diag("objc_in_generic_extension")>>
                          ELSE <<>>)
    ELSE Check(FALSE, <<>>)

\* a mutant of isBridgedToObjectiveCClass: statically bridged types are not
\* counted
isBridgedToObjectiveCClass_NoStatic(repr) ==
    repr \in {"Object", "Bridged", "BridgedError"}

isBridgedToObjectiveCClass(repr) ==
    CASE repr \in {"Trivial", "None"} -> FALSE
      [] repr \in {"Object", "Bridged", "BridgedError", "StaticBridged"} ->
             TRUE

\* the accessor case of isRepresentableInObjC
accessorRepresentableInObjC(accessor, Reason, Diagnose) ==
    LET complain(id) ==
            IF Diagnose
            THEN <<Diag(id)>> \o describeObjCReason(accessor, Reason)
            ELSE <<>>
    IN IF /\ ~accessor.storageIsObjC
          /\ Reason # "ExplicitlyCDecl"
          /\ Reason # "WitnessToObjC"
       THEN Rep(FALSE, NoConvention,
                complain(
                    IF accessor.accessorKind = "Get"
                    THEN (IF accessor.storageKind = "Var"
                          THEN "objc_getter_for_nonobjc_property"
                          ELSE "objc_getter_for_nonobjc_subscript")
                    ELSE (IF accessor.storageKind = "Var"
                          THEN "objc_setter_for_nonobjc_property"
                          ELSE "objc_setter_for_nonobjc_subscript")))
       ELSE CASE accessor.accessorKind \in {"DidSet", "WillSet"} ->
                     Rep(FALSE, NoConvention,
                         complain("objc_observing_accessor"))
              [] accessor.accessorKind \in {"Get", "Set"} ->
                     Rep(TRUE, NoConvention, <<>>)
              [] accessor.accessorKind = "MaterializeForSet" ->
                     Rep(FALSE, NoConvention, <<>>)
              [] accessor.accessorKind \in {"Address", "MutableAddress"} ->
                     Rep(FALSE, NoConvention, complain("objc_addressor"))

\* the result type of a FuncDecl must be representable
checkResultType(AFD, Reason, Diagnose) ==
    IF /\ AFD.kind = "Func"
       /\ AFD.resultType.shape # "Error"
       /\ ~isVoid(AFD.resultType)
       /\ AFD.resultType.shape # "Uninhabited"
       /\ ~isRepresentableIn(AFD.resultType)
    THEN Check(TRUE,
               IF Diagnose
               THEN <<DiagK("objc_invalid_on_func_result_type",
                            getObjCDiagnosticAttrKind(Reason))>>
                    \o diagnoseTypeNotRepresentableInObjC(AFD.resultType)
                    \o describeObjCReason(AFD, Reason)
               ELSE <<>>)
    ELSE Check(FALSE, <<>>)

\* camel_case::getLastWord of a selector piece, which is here the sequence
\* of its words
getLastWord(piece) == piece[Len(piece)]

Id_error == <<"error">>

\* a mutant of selectorErrorIndex: the leftmost "error" piece is taken
selectorErrorIndex_Leftmost(selectorPieces, i) ==
    LET hits == {j \in 1..i : selectorPieces[j] = Id_error}
    IN IF hits # {} THEN (CHOOSE j \in hits : \A l \in hits : j <= l) - 1
       ELSE IF i >= 1 /\ selectorPieces[1][Len(selectorPieces[1])] = "Error"
            THEN 0
       ELSE -1

\* the index the explicit @objc name gives the error parameter, or -1
RECURSIVE selectorErrorIndex(_, _)
selectorErrorIndex(selectorPieces, i) ==
    IF i = 0 THEN -1
    ELSE IF selectorPieces[i] = Id_error THEN i - 1
    ELSE IF i = 1 /\ getLastWord(selectorPieces[i]) = "Error" THEN i - 1
    ELSE selectorErrorIndex(selectorPieces, i - 1)

\* a mutant of skipTrailingClosures: optional closures are not skipped
RECURSIVE skipTrailingClosures_NoOptional(_, _)
skipTrailingClosures_NoOptional(paramList, errorParameterIndex) ==
    IF errorParameterIndex = 0 THEN 0
    ELSE IF paramList[errorParameterIndex].type.shape # "Function"
         THEN errorParameterIndex
    ELSE skipTrailingClosures_NoOptional(paramList, errorParameterIndex - 1)

\* the last parameter that is not a trailing closure
RECURSIVE skipTrailingClosures(_, _)
skipTrailingClosures(paramList, errorParameterIndex) ==
    IF errorParameterIndex = 0 THEN 0
    ELSE LET type == paramList[errorParameterIndex].type
             isFunction ==
                 IF type.shape = "Optional"
                 THEN type.objectShape = "Function"
                 ELSE type.shape = "Function"
         IN IF ~isFunction THEN errorParameterIndex
            ELSE skipTrailingClosures(paramList, errorParameterIndex - 1)

errorParameterIndexOf(AFD) ==
    LET named == IF "ObjC" \in AFD.attrs /\ AFD.selectorPieces # <<>>
                 THEN selectorErrorIndex(AFD.selectorPieces,
                                         Len(AFD.selectorPieces))
                 ELSE -1
    IN IF named # -1 THEN named
       ELSE skipTrailingClosures(
                AFD.params,
                IF AFD.kind = "Constructor"
                   /\ AFD.isObjCZeroParameterWithLongSelector
                THEN Len(AFD.params) - 1
                ELSE Len(AFD.params))

\* a mutant of boolDeclOf: Swift.Bool is preferred to ObjCBool
boolDeclOf_NativeFirst(lib) ==
    IF lib.Bool THEN "Bool"
    ELSE IF lib.ObjCBool THEN "ObjCBool"
    ELSE NullType

\* a mutant of boolDeclOf: Swift.Bool is always there
boolDeclOf_NativeAlways(lib) ==
    IF lib.ObjCBool THEN "ObjCBool" ELSE "Bool"

\* Context.getObjCBoolDecl(), or Context.getBoolDecl() if there is none, or
\* nullptr
boolDeclOf(lib) ==
    IF lib.ObjCBool THEN "ObjCBool"
    ELSE IF lib.Bool THEN "Bool"
    ELSE NullType

\* a mutant of isFailable: no initializer is failable
isFailable_Never(ctor) == FALSE

\* ctor->getFailability() != OTK_None
isFailable(ctor) == ctor.failability # "OTK_None"

\* a mutant of errorConventionOf: the function is accepted and no
\* convention is formed
errorConventionOf_Unformed(AFD, Reason, Diagnose, lib) ==
    Rep(TRUE, NoConvention, <<>>)

\* Throwing functions must map to a particular error convention.
errorConventionOf(AFD, Reason, Diagnose, lib) ==
    LET complain(id) ==
            IF Diagnose
            THEN <<DiagK(id, getObjCDiagnosticAttrKind(Reason))>>
                 \o describeObjCReason(AFD, Reason)
            ELSE <<>>
        errorParameterType ==
            IF lib.NSError
            THEN "Optional<AutoreleasingUnsafeMutablePointer<Optional<NSError>>>"
            ELSE NullType
        form(kind, errorResultType) ==
            Rep(TRUE,
                Convention(kind, errorParameterIndexOf(AFD), FALSE, FALSE,
                           errorParameterType, errorResultType),
                <<>>)
        resultType == AFD.resultType
    IN IF AFD.kind = "Constructor"
       THEN IF isFailable(AFD)
            THEN Rep(FALSE, NoConvention,
                     complain("objc_invalid_on_failing_init"))
            ELSE form("NilResult", NullType)
       ELSE IF isVoid(resultType)
            THEN IF boolDeclOf(lib) = NullType
                 THEN Rep(FALSE, NoConvention, <<Diag("broken_bool")>>)
                 ELSE form("ZeroResult", boolDeclOf(lib))
       ELSE IF /\ resultType.shape # "Optional"
               /\ isBridgedToObjectiveCClass(resultType.repr)
            THEN form("NilResult", NullType)
       ELSE IF /\ resultType.shape = "Optional"
               /\ isBridgedToObjectiveCClass(resultType.objectRepr)
            THEN Rep(FALSE, NoConvention,
                     complain("objc_invalid_on_throwing_optional_result"))
       ELSE Rep(FALSE, NoConvention,
                complain("objc_invalid_on_throwing_result"))

\* TypeChecker::isRepresentableInObjC(AFD, Reason, errorConvention)
isRepresentableInObjC(AFD, Reason, opts, lib) ==
    LET Diagnose == shouldDiagnoseObjCReason(Reason, opts)
        foreign == checkObjCInForeignClassContext(AFD, Reason, opts)
        generic == checkObjCWithGenericParams(AFD, Reason, opts)
        extension == checkObjCInExtensionContext(AFD, Diagnose)
        isSpecialInit ==
            AFD.kind = "Constructor"
            /\ AFD.isObjCZeroParameterWithLongSelector
        paramList ==
            IF isSpecialInit THEN Scan(TRUE, <<>>, 0)
            ELSE isParamListRepresentableInObjC(AFD, AFD.params, Reason,
                                                opts)
        resultType == checkResultType(AFD, Reason, Diagnose)
        throwing == errorConventionOf(AFD, Reason, Diagnose, lib)
    IN IF foreign.hit THEN Rep(FALSE, NoConvention, foreign.diags)
       ELSE IF generic.hit THEN Rep(FALSE, NoConvention, generic.diags)
       ELSE IF extension.hit THEN Rep(FALSE, NoConvention, extension.diags)
       ELSE IF AFD.isOperator
            THEN Rep(FALSE, NoConvention,
                     <<Diag(IF AFD.DC.kind = "Protocol"
                            THEN "objc_operator_proto"
                            ELSE "objc_operator")>>)
       ELSE IF AFD.kind = "Accessor"
            THEN accessorRepresentableInObjC(AFD, Reason, Diagnose)
       ELSE IF ~isSpecialInit /\ ~paramList.result /\ ~Diagnose
            THEN Rep(FALSE, NoConvention, paramList.diags)
       ELSE IF resultType.hit
            THEN Rep(FALSE, NoConvention,
                     paramList.diags \o resultType.diags)
       ELSE IF AFD.hasThrows
            THEN Rep(throwing.result, throwing.convention,
                     paramList.diags \o throwing.diags)
       ELSE Rep(TRUE, NoConvention, paramList.diags)

\* A property: a stored property of a plain Swift class, of type Int.
PlainVar ==
    [kind |-> "Var", attrs |-> {}, dynamicImplicit |-> FALSE,
     objcName |-> NoName, isObjC |-> FALSE,
     foreignErrorConvention |-> NoConvention,
     DC |-> ClassContext({}, FALSE, "NonObjC"),
     overridden |-> NoDecl, witnessed |-> <<>>,
     isInvalid |-> FALSE, isOperator |-> FALSE, isImplicit |-> FALSE,
     access |-> Internal, accessorKind |-> "NotAccessor",
     type |-> IntTy, isReferenceStorage |-> FALSE]

\* TypeChecker::isRepresentableInObjC(VD, Reason); VD.type is the type
\* with @weak and @unowned looked through
isRepresentableInObjC_Var(VD, Reason, opts) ==
    LET Result == isRepresentableIn(VD.type)
        Diagnose == shouldDiagnoseObjCReason(Reason, opts)
        extension == checkObjCInExtensionContext(VD, Diagnose)
        foreign == checkObjCInForeignClassContext(VD, Reason, opts)
    IN IF VD.isInvalid THEN Rep(FALSE, NoConvention, <<>>)
       ELSE IF Result /\ extension.hit
            THEN Rep(FALSE, NoConvention, extension.diags)
       ELSE IF foreign.hit THEN Rep(FALSE, NoConvention, foreign.diags)
       ELSE IF ~Diagnose \/ Result THEN Rep(Result, NoConvention, <<>>)
       ELSE Rep(Result, NoConvention,
                <<DiagK("objc_invalid_on_var",
                        getObjCDiagnosticAttrKind(Reason))>>
                \o (IF VD.isReferenceStorage THEN <<>>
                    ELSE diagnoseTypeNotRepresentableInObjC(VD.type))
                \o describeObjCReason(VD, Reason))

\* A subscript of a plain Swift class, from Int to NSObject.
PlainSubscript ==
    [kind |-> "Subscript", attrs |-> {}, dynamicImplicit |-> FALSE,
     objcName |-> NoName, isObjC |-> FALSE,
     foreignErrorConvention |-> NoConvention,
     DC |-> ClassContext({}, FALSE, "NonObjC"),
     overridden |-> NoDecl, witnessed |-> <<>>,
     isInvalid |-> FALSE, isOperator |-> FALSE, isImplicit |-> FALSE,
     access |-> Internal, accessorKind |-> "NotAccessor",
     indicesType |-> IntTy, elementType |-> NSObjectTy,
     objcSubscriptKind |-> "Indexed"]

\* TypeChecker::isRepresentableInObjC(SD, Reason)
isRepresentableInObjC_Subscript(SD, Reason, opts) ==
    LET Diagnose == shouldDiagnoseObjCReason(Reason, opts)
        foreign == checkObjCInForeignClassContext(SD, Reason, opts)
        IndicesResult == isRepresentableIn(SD.indicesType)
        ElementResult == isRepresentableIn(SD.elementType)
        Result == IndicesResult /\ ElementResult
        extension == checkObjCInExtensionContext(SD, Diagnose)
    IN IF foreign.hit THEN Rep(FALSE, NoConvention, foreign.diags)
       ELSE IF SD.indicesType.shape = "Error"
            THEN Rep(FALSE, NoConvention, <<>>)
       ELSE IF Result /\ extension.hit
            THEN Rep(FALSE, NoConvention, extension.diags)
       ELSE IF Result /\ SD.objcSubscriptKind = "None"
            THEN Rep(FALSE, NoConvention,
                     <<DiagK("objc_invalid_subscript_key_type",
                             getObjCDiagnosticAttrKind(Reason))>>)
       ELSE IF ~Diagnose \/ Result THEN Rep(Result, NoConvention, <<>>)
       ELSE Rep(Result, NoConvention,
                <<DiagK("objc_invalid_on_subscript",
                        getObjCDiagnosticAttrKind(Reason))>>
                \o diagnoseTypeNotRepresentableInObjC(
                       IF ~IndicesResult THEN SD.indicesType
                       ELSE SD.elementType)
                \o describeObjCReason(SD, Reason))

AbstractFunctionKinds == {"Func", "Constructor", "Destructor", "Accessor"}

\* TypeChecker::canBeRepresentedInObjC(decl)
canBeRepresentedInObjC(decl, opts, lib) ==
    IF ~opts.EnableObjCInterop THEN Rep(FALSE, NoConvention, <<>>)
    ELSE IF decl.kind \in AbstractFunctionKinds
         THEN [isRepresentableInObjC(decl, "MemberOfObjCMembersClass", opts,
                                     lib)
                  EXCEPT !.convention = NoConvention]
    ELSE IF decl.kind = "Var"
         THEN isRepresentableInObjC_Var(decl, "MemberOfObjCMembersClass",
                                        opts)
    ELSE IF decl.kind = "Subscript"
         THEN isRepresentableInObjC_Subscript(
                  decl, "MemberOfObjCMembersClass", opts)
    ELSE Rep(FALSE, NoConvention, <<>>)

\* What a call that yields r can do.  A diagnostic whose attribute kind is
\* llvm_unreachable was never emitted by a build with assertions: the process
\* aborted there.  In a build without them the behaviour is undefined; the
\* call may go on with any attribute kind.
Outcomes(r) ==
    LET bad == {i \in DOMAIN r.diags : r.diags[i].attrKind = Unreachable}
        first == CHOOSE i \in bad : \A j \in bad : i <= j
    IN IF bad = {} THEN {[r EXCEPT !.diags = r.diags] @@ [fatal |-> FALSE]}
       ELSE {[result |-> FALSE, convention |-> NoConvention,
              diags |-> SubSeq(r.diags, 1, first - 1), fatal |-> TRUE]}
            \cup {[r EXCEPT !.diags =
                       [i \in DOMAIN r.diags |->
                           IF i \in bad
                           THEN [r.diags[i] EXCEPT !.attrKind = k]
                           ELSE r.diags[i]]] @@ [fatal |-> TRUE] :
                     k \in ObjCReasonKinds}

(***************************************************************************)
(* The calls of shouldMarkAsObjC the model makes.                          *)
(***************************************************************************)
\* ObjCBool, Bool and NSError are all there
FullStdlib == [ObjCBool |-> TRUE, Bool |-> TRUE, NSError |-> TRUE]

DefaultLangOpts ==
    [EnableSwift3ObjCInference |-> FALSE, WarnSwift3ObjCInference |-> "None",
     EnableObjCAttrRequiresFoundation |-> TRUE, EnableObjCInterop |-> TRUE,
     isSwiftVersion3 |-> FALSE]

Swift3ObjCInferenceWarnings == {"None", "Minimal", "Complete"}

\* the attribute lists of at most MaxAttrs attributes; 'dynamic' is written
\* or implicit
AttrChoices ==
    {c \in [attrs : {a \in SUBSET InferAttrs : Cardinality(a) <= MaxAttrs},
            dynamicImplicit : BOOLEAN] :
        c.dynamicImplicit => "Dynamic" \in c.attrs}

\* the protocol requirements a declaration may witness, by name
ReqNames == <<"foo", "bar", "baz", "qux">>
Reqs == {ReqNames[i] : i \in 1..MaxReqs}

\* what findWitnessedObjCRequirements may find: requirements, each once
WitnessLists ==
    {w \in UNION {[1..n -> Reqs] : n \in 0..MaxReqs} :
        \A i, j \in DOMAIN w : w[i] = w[j] => i = j}

\* every context a member can be in
MemberContexts ==
    {FileContext, StructContext}
    \cup {ProtocolContext(b) : b \in BOOLEAN}
    \cup {ClassContext(m, f, a) :
            m \in SUBSET {"ObjCMembers"}, f \in BOOLEAN, a \in ObjCClassKinds}
    \cup {ClassExtensionContext(e, m, f, a) :
            e \in SUBSET {"ObjC", "NonObjC"}, m \in SUBSET {"ObjCMembers"},
            f \in BOOLEAN, a \in ObjCClassKinds}
    \cup {StructExtensionContext(e) : e \in SUBSET {"ObjC", "NonObjC"}}

\* the contexts of Swift classes that derive from NSObject, and the others
NSObjectContexts ==
    {c \in MemberContexts :
        ~c.classIsForeign
        /\ c.classAncestry = (IF isClassOrClassExtensionContext(c)
                              THEN "ObjC" ELSE "NonObjC")}

\* the call shouldMarkAsObjC(decl, allowImplicit) under the options opts,
\* about to be made
ReadyToInfer(decl, allowImplicit, opts) ==
    /\ D = decl
    /\ pre = decl
    /\ args = [allowImplicit |-> allowImplicit]
    /\ LangOpts = opts
    /\ pc = "ready"
    /\ op = "none"
    /\ reason = None
    /\ result = FALSE
    /\ errorConvention = NoConvention
    /\ Diags = <<>>
    /\ fatal = FALSE
    /\ Stdlib = FullStdlib
    /\ scanned = 0
    /\ NothingMarked

\* members with any attributes, overrides and witnessed requirements
AttributedMembers ==
    \E c \in AttrChoices, dc \in NSObjectContexts,
       o \in {NoDecl, Overridden(FALSE, NoConvention),
              Overridden(TRUE, NoConvention)},
       w \in WitnessLists, acc \in {FilePrivate, Internal}, s3 \in BOOLEAN :
        ReadyToInfer(
            [PlainMember EXCEPT !.attrs = c.attrs,
                                !.dynamicImplicit = c.dynamicImplicit,
                                !.DC = dc, !.overridden = o,
                                !.witnessed = w, !.access = acc],
            FALSE,
            [DefaultLangOpts EXCEPT !.EnableSwift3ObjCInference = s3])

\* members with no attribute, of any validity, access and context
PlainMembers ==
    \E dc \in MemberContexts,
       o \in {NoDecl, Overridden(FALSE, NoConvention)},
       acc \in AccessLevels,
       invalid, operator, implicit, allowImplicit, s3 \in BOOLEAN :
        ReadyToInfer(
            [PlainMember EXCEPT !.DC = dc, !.overridden = o,
                                !.isInvalid = invalid,
                                !.isOperator = operator,
                                !.isImplicit = implicit, !.access = acc],
            allowImplicit,
            [DefaultLangOpts EXCEPT !.EnableSwift3ObjCInference = s3])

\* 'dynamic' members and accessors under every warning level
DynamicMembers ==
    \E k \in {<<"Func", "NotAccessor">>, <<"Var", "NotAccessor">>,
              <<"Accessor", "Get">>, <<"Accessor", "Set">>,
              <<"Accessor", "DidSet">>},
       c \in {x \in AttrChoices : "Dynamic" \in x.attrs},
       dc \in {FileContext, ClassContext({}, FALSE, "NonObjC"),
               ClassContext({}, FALSE, "ObjC")},
       s3 \in BOOLEAN, w \in Swift3ObjCInferenceWarnings :
        ReadyToInfer(
            [PlainMember EXCEPT !.kind = k[1], !.accessorKind = k[2],
                                !.attrs = c.attrs,
                                !.dynamicImplicit = c.dynamicImplicit,
                                !.DC = dc],
            FALSE,
            [DefaultLangOpts EXCEPT !.EnableSwift3ObjCInference = s3,
                                    !.WarnSwift3ObjCInference = w])

\* classes; only an @objc attribute carries a name
Classes ==
    \E a \in SUBSET {"ObjC", "ObjCMembers"}, n \in {NoName, "Name"},
       g \in BOOLEAN, k \in ObjCClassKinds,
       s3, foundation, interop \in BOOLEAN :
        /\ n # NoName => "ObjC" \in a
        /\ ReadyToInfer(
              [PlainClass EXCEPT !.attrs = a, !.objcName = n,
                                 !.isGenericContext = g, !.ancestry = k],
              FALSE,
              [DefaultLangOpts EXCEPT
                  !.EnableSwift3ObjCInference = s3,
                  !.EnableObjCAttrRequiresFoundation = foundation,
                  !.EnableObjCInterop = interop])

InitInfer ==
    \/ AttributedMembers
    \/ PlainMembers
    \/ DynamicMembers
    \/ Classes

\* a mutant of CallShouldMarkAsObjC: the inference sets the declaration's
\* exposure flag itself
CallShouldMarkAsObjC_Marks ==
    /\ pc = "ready"
    /\ LET r == shouldMarkAsObjC(D, args.allowImplicit, LangOpts) IN
          /\ reason' = r.reason
          /\ Diags' = r.diags
          /\ D' = [D EXCEPT !.attrs = r.attrs, !.isObjC = (r.reason # None)]
    /\ pre' = D
    /\ pc' = "done"
    /\ op' = "shouldMarkAsObjC"
    /\ UNCHANGED <<LangOpts, args, result, errorConvention, fatal, Stdlib,
                   scanned, tables>>

\* shouldMarkAsObjC(TC, VD, allowImplicit)
CallShouldMarkAsObjC ==
    /\ pc = "ready"
    /\ LET r == shouldMarkAsObjC(D, args.allowImplicit, LangOpts) IN
          /\ reason' = r.reason
          /\ Diags' = r.diags
          /\ D' = [D EXCEPT !.attrs = r.attrs]
    /\ pre' = D
    /\ pc' = "done"
    /\ op' = "shouldMarkAsObjC"
    /\ UNCHANGED <<LangOpts, args, result, errorConvention, fatal, Stdlib,
                   scanned, tables>>

NextInfer == CallShouldMarkAsObjC

SpecInfer == InitInfer /\ [][NextInfer]_vars

(***************************************************************************)
(* The calls of the representability checks the model makes.  Init draws   *)
(* the declaration, the reason and the options; each action is one call.   *)
(***************************************************************************)
\* the call of a check of decl for the reason k, about to be made, with
\* conv in the caller's errorConvention
ReadyToCheckWith(decl, k, opts, lib, conv) ==
    /\ D = decl
    /\ pre = decl
    /\ args = [reason |-> k, errorConvention |-> conv]
    /\ LangOpts = opts
    /\ pc = "ready"
    /\ op = "none"
    /\ reason = None
    /\ result = FALSE
    /\ errorConvention = conv
    /\ Diags = <<>>
    /\ fatal = FALSE
    /\ Stdlib = lib
    /\ scanned = 0
    /\ NothingMarked

\* the same with an empty errorConvention
ReadyToCheck(decl, k, opts, lib) ==
    ReadyToCheckWith(decl, k, opts, lib, NoConvention)

Swift3Inference(on) ==
    [DefaultLangOpts EXCEPT !.EnableSwift3ObjCInference = on]

ParamChoices ==
    {Param(IntTy), Param(VoidTy), Param(SwiftStructTy),
     VariadicParam(IntTy), InOutParam(IntTy)}

\* the parameter lists of at most MaxParams parameters
ParamLists == UNION {[1..n -> ParamChoices] : n \in 0..MaxParams}

\* the error convention of an overridden method, with the error parameter
\* at index and replaced by '()' or removed
ImportedConvention(index, replaced) ==
    Convention("ZeroResult", index, FALSE, replaced, "NSErrorPointer",
               "ObjCBool")

OverriddenChoices ==
    {NoDecl, Overridden(TRUE, NoConvention),
     Overridden(TRUE, ImportedConvention(0, TRUE)),
     Overridden(TRUE, ImportedConvention(1, TRUE)),
     Overridden(TRUE, ImportedConvention(0, FALSE))}

\* the contexts a checked member is declared in
CheckedContexts ==
    {ClassContext({}, FALSE, "ObjC"),
     [ClassContext({}, TRUE, "ObjC") EXCEPT !.classForeignKind = "CFType"],
     [ClassContext({}, TRUE, "ObjC") EXCEPT
         !.classForeignKind = "RuntimeOnly"],
     [ClassExtensionContext({}, {}, FALSE, "ObjC") EXCEPT
         !.extHasWhereClause = TRUE],
     [ClassExtensionContext({}, {}, FALSE, "ObjC") EXCEPT
         !.extGenericAncestor = "Swift"],
     [ClassExtensionContext({}, {}, FALSE, "ObjC") EXCEPT
         !.extGenericAncestor = "Clang"],
     ProtocolContext(TRUE)}

\* the reasons and the settings of Swift 3 inference, which is read for the
\* two inspectable reasons only
ReasonsAndModes ==
    {m \in [reason : ObjCReasonKinds, swift3 : BOOLEAN] :
        m.swift3 =>
            m.reason \in {"ExplicitlyIBInspectable",
                          "ExplicitlyGKInspectable"}}

\* methods with any parameter list, throwing or not, overriding or not
FunctionsWithParams ==
    \E pl \in ParamLists, t \in BOOLEAN, o \in OverriddenChoices,
       m \in ReasonsAndModes :
        LET k == m.reason
            s3 == m.swift3
        IN ReadyToCheck(
            [PlainFunc EXCEPT !.params = pl, !.hasThrows = t,
                              !.overridden = o],
            k, Swift3Inference(s3), FullStdlib)

\* methods and operators in any context, generic or not
FunctionsInContexts ==
    \E dc \in CheckedContexts, g \in BOOLEAN, isOp \in BOOLEAN,
       k \in ObjCReasonKinds, s3 \in BOOLEAN :
        ReadyToCheck(
            [PlainFunc EXCEPT !.DC = dc, !.hasGenericParams = g,
                              !.isOperator = isOp],
            k, Swift3Inference(s3), FullStdlib)

AccessorKinds ==
    {"Get", "Set", "DidSet", "WillSet", "MaterializeForSet", "Address",
     "MutableAddress"}

Accessors ==
    \E a \in AccessorKinds, st \in BOOLEAN, sk \in {"Var", "Subscript"},
       k \in ObjCReasonKinds, s3 \in BOOLEAN :
        ReadyToCheck(
            [PlainFunc EXCEPT !.kind = "Accessor", !.accessorKind = a,
                              !.storageIsObjC = st, !.storageKind = sk],
            k, Swift3Inference(s3), FullStdlib)

ResultTypes ==
    {VoidTy, IntTy, NSObjectTy, StringTy, ArrayTy, ErrorExistentialTy,
     OptionalTy(NSObjectTy), OptionalTy(StringTy), OptionalTy(ArrayTy),
     OptionalTy(ErrorExistentialTy), SwiftStructTy, NeverTy, ErrorTy}

Stdlibs == [ObjCBool : BOOLEAN, Bool : BOOLEAN, NSError : BOOLEAN]

\* methods with any result type, throwing or not, with any library
FunctionsWithResults ==
    \E rt \in ResultTypes, t \in BOOLEAN, lib \in Stdlibs,
       k \in ObjCReasonKinds, s3 \in BOOLEAN :
        ReadyToCheck(
            [PlainFunc EXCEPT !.resultType = rt, !.hasThrows = t],
            k, Swift3Inference(s3), lib)

\* selectors, each piece the sequence of its words
Selectors ==
    {<<>>, <<Id_error>>, <<<<"foo">>, Id_error>>, <<<<"foo", "Error">>>>,
     <<<<"foo">>, <<"bar", "Error">>>>, <<<<"foo">>, <<"bar">>>>,
     <<<<"foo", "Error">>, <<"bar">>>>, <<Id_error, Id_error>>,
     <<Id_error, <<"foo">>>>, <<<<"foo", "Error">>, Id_error>>}

ClosureParamLists ==
    {<<>>, <<Param(IntTy)>>, <<Param(BlockTy)>>,
     <<Param(IntTy), Param(BlockTy)>>,
     <<Param(IntTy), Param(OptionalTy(BlockTy))>>,
     <<Param(BlockTy), Param(IntTy)>>}

\* throwing methods and initializers with or without @objc and a selector
ThrowingFunctions ==
    \E sel \in Selectors, pl \in ClosureParamLists, objc \in BOOLEAN,
       fk \in {"Func", "Constructor"},
       f \in {"OTK_None", "OTK_Optional"},
       k \in ObjCReasonKinds, s3 \in BOOLEAN,
       conv \in {NoConvention, ImportedConvention(0, FALSE)} :
        ReadyToCheckWith(
            [PlainFunc EXCEPT !.kind = fk, !.hasThrows = TRUE,
                              !.failability = f, !.params = pl,
                              !.attrs = IF sel = <<>> /\ ~objc THEN {}
                                        ELSE {"ObjC"},
                              !.objcName = IF sel = <<>> THEN NoName
                                           ELSE "Name",
                              !.selectorPieces = sel],
            k, Swift3Inference(s3), FullStdlib, conv)

\* init(malice: ()), the initializer with a zero-parameter long selector
SpecialInits ==
    \E t \in BOOLEAN, k \in ObjCReasonKinds, s3 \in BOOLEAN :
        ReadyToCheck(
            [PlainFunc EXCEPT !.kind = "Constructor",
                              !.params = <<Param(VoidTy)>>,
                              !.isObjCZeroParameterWithLongSelector = TRUE,
                              !.hasThrows = t],
            k, Swift3Inference(s3), FullStdlib)

Vars ==
    \E T \in ResultTypes \ {VoidTy, NeverTy}, rs \in BOOLEAN,
       inv \in BOOLEAN, dc \in CheckedContexts,
       k \in ObjCReasonKinds, s3 \in BOOLEAN :
        ReadyToCheck(
            [PlainVar EXCEPT !.type = T, !.isReferenceStorage = rs,
                             !.isInvalid = inv, !.DC = dc],
            k, Swift3Inference(s3), FullStdlib)

Subscripts ==
    \E it \in {IntTy, StringTy, SwiftStructTy, ErrorTy},
       et \in {NSObjectTy, SwiftStructTy},
       sk \in {"Indexed", "Keyed", "None"}, dc \in CheckedContexts,
       k \in ObjCReasonKinds, s3 \in BOOLEAN :
        ReadyToCheck(
            [PlainSubscript EXCEPT !.indicesType = it, !.elementType = et,
                                   !.objcSubscriptKind = sk, !.DC = dc],
            k, Swift3Inference(s3), FullStdlib)

\* any options, and a class, which none of the checks applies to
AnyLangOpts ==
    \E s3 \in BOOLEAN, w \in Swift3ObjCInferenceWarnings, v3 \in BOOLEAN,
       interop \in BOOLEAN, k \in ObjCReasonKinds,
       decl \in {PlainFunc, PlainVar, PlainSubscript, PlainClass} :
        ReadyToCheck(
            decl, k,
            [DefaultLangOpts EXCEPT !.EnableSwift3ObjCInference = s3,
                                    !.WarnSwift3ObjCInference = w,
                                    !.isSwiftVersion3 = v3,
                                    !.EnableObjCInterop = interop],
            FullStdlib)

InitRepr ==
    \/ FunctionsWithParams
    \/ FunctionsInContexts
    \/ Accessors
    \/ FunctionsWithResults
    \/ ThrowingFunctions
    \/ SpecialInits
    \/ Vars
    \/ Subscripts
    \/ AnyLangOpts

\* what all the calls leave alone
CallReturns(name) ==
    /\ pc' = "done"
    /\ op' = name
    /\ UNCHANGED <<LangOpts, D, pre, args, reason, Stdlib, tables>>

CallShouldDiagnoseObjCReason ==
    /\ pc = "ready"
    /\ result' = shouldDiagnoseObjCReason(args.reason, LangOpts)
    /\ CallReturns("shouldDiagnoseObjCReason")
    /\ UNCHANGED <<errorConvention, Diags, fatal, scanned>>

CallIsParamListRepresentableInObjC ==
    /\ pc = "ready"
    /\ D.kind \in {"Func", "Constructor"}
    /\ LET r == isParamListRepresentableInObjC(D, D.params, args.reason,
                                               LangOpts)
       IN /\ result' = r.result
          /\ Diags' = r.diags
          /\ scanned' = r.scanned
    /\ CallReturns("isParamListRepresentableInObjC")
    /\ UNCHANGED <<errorConvention, fatal>>

\* the call returns as one of the outcomes of r; the caller's
\* errorConvention is kept if the call was not given it
Returns(r, keep) ==
    \E o \in Outcomes(r) :
        /\ result' = o.result
        /\ errorConvention' = (IF keep THEN errorConvention ELSE o.convention)
        /\ Diags' = o.diags
        /\ fatal' = o.fatal

CallIsRepresentableInObjC ==
    /\ pc = "ready"
    /\ D.kind \in AbstractFunctionKinds
    /\ Returns(isRepresentableInObjC(D, args.reason, LangOpts, Stdlib), FALSE)
    /\ CallReturns("isRepresentableInObjC")
    /\ UNCHANGED scanned

CallIsRepresentableInObjC_Var ==
    /\ pc = "ready"
    /\ D.kind = "Var"
    /\ Returns(isRepresentableInObjC_Var(D, args.reason, LangOpts), TRUE)
    /\ CallReturns("isRepresentableInObjC")
    /\ UNCHANGED scanned

CallIsRepresentableInObjC_Subscript ==
    /\ pc = "ready"
    /\ D.kind = "Subscript"
    /\ Returns(isRepresentableInObjC_Subscript(D, args.reason, LangOpts),
               TRUE)
    /\ CallReturns("isRepresentableInObjC")
    /\ UNCHANGED scanned

CallCanBeRepresentedInObjC ==
    /\ pc = "ready"
    /\ Returns(canBeRepresentedInObjC(D, LangOpts, Stdlib), TRUE)
    /\ CallReturns("canBeRepresentedInObjC")
    /\ UNCHANGED scanned

(***************************************************************************)
(* markAsObjC and inferObjCName.                                           *)
(***************************************************************************)
\* ObjCSelector: its pieces and the number of its arguments
Sel(pieces, numArgs) == [pieces |-> pieces, numArgs |-> numArgs]

\* no name in the @objc attribute, or no @objc attribute
NoSelector == Sel(<<>>, 0)

\* What markAsObjC reads and writes of a declaration besides the above: the
\* name in its @objc attribute and whether that name is implicit, whether
\* the attribute is marked as inferred by Swift 3, the selector of its Swift
\* name, the attributes made invalid, whether it is an instance member and
\* whether it is in a source file.
MarkFields ==
    [selector |-> NoSelector, nameIsImplicit |-> FALSE,
     swift3Inferred |-> FALSE, defaultSelector |-> Sel(<<"f">>, 0),
     invalidAttrs |-> {}, isInstanceMember |-> TRUE, inSourceFile |-> TRUE]

\* an overridden declaration with its Objective-C name
OverriddenNamed(isObjC, selector, convention) ==
    [selector |-> selector] @@ Overridden(isObjC, convention)

hasName(VD) == "ObjC" \in VD.attrs /\ VD.selector # NoSelector

\* ValueDecl::getObjCSelector and getObjCRuntimeName: the name in the
\* attribute, or else the one of the Swift name
getObjCSelector(VD) ==
    IF hasName(VD) THEN VD.selector ELSE VD.defaultSelector

\* the ObjC runtime name of a requirement: baz is @objc(foo)
getObjCRuntimeName(req) ==
    Sel(<<IF req = "baz" THEN "foo" ELSE req>>, 0)

\* attr->setInvalid(): getAttribute no longer finds the attribute
setInvalid(VD, attr) ==
    [VD EXCEPT !.attrs = @ \ {attr}, !.invalidAttrs = @ \cup {attr}]

\* the lambda setObjCName of inferObjCName
setObjCName(decl, selector) ==
    [decl EXCEPT !.attrs = @ \cup {"ObjC"}, !.selector = selector,
                 !.nameIsImplicit = TRUE]

\* a declaration and the diagnostics emitted on the way to it
Named(decl, diags) == [D |-> decl, diags |-> diags]

\* inferObjCName, when the declaration overrides an @objc declaration of
\* its kind: a method or a property
inferObjCNameFromOverride(decl) ==
    LET overriddenSelector == decl.overridden.selector
        conflict == hasName(decl) /\ decl.selector # overriddenSelector
        shouldFixName == ~hasName(decl) \/ conflict
        complaint ==
            IF conflict /\ ~decl.nameIsImplicit
            THEN <<Diag(IF decl.kind = "Var"
                        THEN "objc_override_property_name_mismatch"
                        ELSE "objc_override_method_selector_mismatch"),
                   Diag("overridden_here")>>
            ELSE <<>>
    IN Named(IF shouldFixName THEN setObjCName(decl, overriddenSelector)
             ELSE decl,
             complaint)

\* a mutant of inferObjCNameFromWitnesses: requirements that disagree give
\* no name
inferObjCNameFromWitnesses_NoneIfAmbiguous(decl) ==
    LET reqs == decl.witnessed
        differing == {j \in 2..Len(reqs) :
                         getObjCRuntimeName(reqs[j])
                             # getObjCRuntimeName(reqs[1])}
    IN IF reqs = <<>> THEN Named(decl, <<>>)
       ELSE IF differing = {}
            THEN Named(setObjCName(decl, getObjCRuntimeName(reqs[1])), <<>>)
       ELSE Named(decl,
                  <<Diag("objc_ambiguous_inference"),
                    Diag("objc_ambiguous_inference_candidate"),
                    Diag("objc_ambiguous_inference_candidate"),
                    Diag("req_near_match_nonobjc")>>)

\* inferObjCName, when no override gave the name: the requirements the
\* declaration witnesses give it
inferObjCNameFromWitnesses(decl) ==
    LET reqs == decl.witnessed
        differing == {j \in 2..Len(reqs) :
                         getObjCRuntimeName(reqs[j])
                             # getObjCRuntimeName(reqs[1])}
        complaint ==
            IF differing = {} THEN <<>>
            ELSE <<Diag("objc_ambiguous_inference"),
                   Diag("objc_ambiguous_inference_candidate"),
                   Diag("objc_ambiguous_inference_candidate"),
                   Diag("req_near_match_nonobjc")>>
    IN IF reqs = <<>> THEN Named(decl, <<>>)
       ELSE Named(setObjCName(decl, getObjCRuntimeName(reqs[1])), complaint)

\* a mutant of inferObjCName: an override keeps the name it has
inferObjCName_KeepsName(decl) ==
    IF decl.kind = "Destructor" \/ hasName(decl) THEN Named(decl, <<>>)
    ELSE IF /\ decl.overridden.exists
            /\ decl.overridden.isObjC
            /\ decl.kind \in AbstractFunctionKinds \cup {"Var"}
         THEN inferObjCNameFromOverride(decl)
    ELSE inferObjCNameFromWitnesses(decl)

\* Infer the Objective-C name for a given declaration.
inferObjCName(decl) ==
    IF decl.kind = "Destructor" THEN Named(decl, <<>>)
    ELSE IF /\ decl.overridden.exists
            /\ decl.overridden.isObjC
            /\ decl.kind \in AbstractFunctionKinds \cup {"Var"}
         THEN inferObjCNameFromOverride(decl)
    ELSE IF hasName(decl) THEN Named(decl, <<>>)
    ELSE inferObjCNameFromWitnesses(decl)

\* a mutant of markNotObjC: 'dynamic' stays valid
markNotObjC_KeepsDynamic(VD) == [VD EXCEPT !.isObjC = FALSE]

\* markAsObjC without a reason: only @objc declarations can be dynamic
markNotObjC(VD) ==
    LET unmarked == [VD EXCEPT !.isObjC = FALSE]
    IN IF "Dynamic" \in VD.attrs THEN setInvalid(unmarked, "Dynamic")
       ELSE unmarked

\* the declaration, the reason and the diagnostics after the @nonobjc test
Conflict(decl, why, diags) == [D |-> decl, why |-> why, diags |-> diags]

\* a mutant of diagnoseNonObjC: a reason that is not diagnosed is not
\* complained about
diagnoseNonObjC_Gated(VD, isObjC, opts) ==
    IF "NonObjC" \notin VD.attrs THEN Conflict(VD, isObjC, <<>>)
    ELSE IF ~shouldDiagnoseObjCReason(isObjC.kind, opts)
         THEN Conflict(setInvalid(VD, "NonObjC"), isObjC, <<>>)
    ELSE Conflict(setInvalid(VD, "NonObjC"), isObjC,
                  <<DiagK("nonobjc_not_allowed",
                          getObjCDiagnosticAttrKind(isObjC.kind))>>)

\* If we see a @nonobjc and we are trying to add an @objc for whatever
\* reason, diagnose an error.
diagnoseNonObjC(VD, isObjC, opts) ==
    LET why == IF shouldDiagnoseObjCReason(isObjC.kind, opts) THEN isObjC
               ELSE ObjCReason("ImplicitlyObjC")
    IN IF "NonObjC" \notin VD.attrs THEN Conflict(VD, isObjC, <<>>)
       ELSE Conflict(setInvalid(VD, "NonObjC"), why,
                     <<DiagK("nonobjc_not_allowed",
                             getObjCDiagnosticAttrKind(why.kind))>>)

\* a mutant of chosenErrorConvention: the convention computed for the
\* method is always the one attached
chosenErrorConvention_Fresh(method, convention) == convention

\* a mutant of chosenErrorConvention: a method that has a convention does
\* not adopt the one of the overridden method again
chosenErrorConvention_UnlessAttached(method, convention) ==
    IF /\ isClassOrClassExtensionContext(method.DC)
       /\ method.overridden.exists
       /\ method.overridden.foreignErrorConvention # NoConvention
       /\ method.foreignErrorConvention = NoConvention
    THEN method.overridden.foreignErrorConvention
    ELSE convention

\* the convention markAsObjC attaches to a throwing method: in a class the
\* one of the overridden method if it has one
chosenErrorConvention(method, convention) ==
    IF /\ isClassOrClassExtensionContext(method.DC)
       /\ method.overridden.exists
       /\ method.overridden.foreignErrorConvention # NoConvention
    THEN method.overridden.foreignErrorConvention
    ELSE convention

NoDiagID == "none"

\* a mutant of isForbiddenSelector: 'load', 'alloc' and 'allocWithZone:'
\* only
isForbiddenSelector_NotInitialize(sel, opts) ==
    IF \/ sel.numArgs = 0 /\ sel.pieces[1] \in {"load", "alloc"}
       \/ sel.numArgs = 1 /\ sel.pieces[1] = "allocWithZone"
    THEN "objc_class_method_not_permitted"
    ELSE NoDiagID

\* the lambda isForbiddenSelector of markAsObjC
isForbiddenSelector(sel, opts) ==
    CASE sel.numArgs = 0 ->
             IF sel.pieces[1] \in {"load", "alloc"}
             THEN "objc_class_method_not_permitted"
             ELSE IF sel.pieces[1] = "initialize"
                  THEN (IF opts.isSwiftVersion3
                        THEN "objc_class_method_not_permitted_swift3_compat_warning"
                        ELSE "objc_class_method_not_permitted")
             ELSE NoDiagID
      [] sel.numArgs = 1 ->
             IF sel.pieces[1] = "allocWithZone"
             THEN "objc_class_method_not_permitted"
             ELSE NoDiagID
      [] OTHER -> NoDiagID

\* a mutant of checkBridgedFunctions: the flag is set and not tested
checkBridgedFunctions_Unguarded(T) ==
    [HasCheckedBridgeFunctions |-> TRUE, bridgeChecks |-> T.bridgeChecks + 1]

\* checkBridgedFunctions: the flag and the number of times the bridging
\* functions were looked up
checkBridgedFunctions(T) ==
    IF T.HasCheckedBridgeFunctions
    THEN [HasCheckedBridgeFunctions |-> TRUE, bridgeChecks |-> T.bridgeChecks]
    ELSE [HasCheckedBridgeFunctions |-> TRUE,
          bridgeChecks |-> T.bridgeChecks + 1]

\* a mutant of pushObjCMethod: a method the table holds is not added again
pushObjCMethod_Once(VD, sel, methods) ==
    IF /\ VD.kind \in AbstractFunctionKinds
       /\ VD.inSourceFile
       /\ \A i \in DOMAIN methods : methods[i] # sel
    THEN Append(methods, sel)
    ELSE methods

\* Record this method in the source-file-specific Objective-C method
\* table.
pushObjCMethod(VD, sel, methods) ==
    IF VD.kind \in AbstractFunctionKinds /\ VD.inSourceFile
    THEN Append(methods, sel)
    ELSE methods

\* the declaration and the tables as markAsObjC leaves them, the
\* diagnostics it emits and whether an assertion of it failed
Marked(decl, diags, checked, recorded, methods, failed) ==
    [D |-> decl, diags |-> diags,
     HasCheckedBridgeFunctions |-> checked.HasCheckedBridgeFunctions,
     bridgeChecks |-> checked.bridgeChecks,
     recordedObjCMethods |-> recorded, ObjCMethods |-> methods,
     fatal |-> failed]

\* the Swift 3 inference part of markAsObjC
markSwift3Inferred(VD, why, opts) ==
    IF why.kind # "MemberOfObjCSubclass" THEN Named(VD, <<>>)
    ELSE Named([VD EXCEPT !.attrs = @ \cup {"ObjC"},
                          !.swift3Inferred = TRUE],
               IF /\ opts.WarnSwift3ObjCInference = "Complete"
                  /\ ~isGetterOrSetter(VD)
               THEN <<Diag("objc_inference_swift3_objc_derived"),
                      Diag("objc_inference_swift3_addobjc"),
                      Diag("objc_inference_swift3_addnonobjc")>>
               ELSE <<>>)

\* swift::markAsObjC.  T holds the tables as the call finds them.  When
\* 'Missing error convention' is asserted in vain, missing says whether the
\* process aborts there and, if it does not, what is read in place of the
\* convention.
markAsObjC(VD, isObjC, convention, opts, T, missing) ==
    LET conflict == diagnoseNonObjC([VD EXCEPT !.isObjC = TRUE], isObjC,
                                    opts)
        unchecked ==
            [HasCheckedBridgeFunctions |-> T.HasCheckedBridgeFunctions,
             bridgeChecks |-> T.bridgeChecks]
        checked == IF VD.kind # "Destructor" THEN checkBridgedFunctions(T)
                   ELSE unchecked
        inClass == isClassOrClassExtensionContext(VD.DC)
        isMethod == VD.kind \in AbstractFunctionKinds
        attaches == isMethod /\ VD.hasThrows
        chosen == chosenErrorConvention(VD, convention)
        failed == attaches /\ chosen = NoConvention
        attached ==
            IF attaches
            THEN [conflict.D EXCEPT !.foreignErrorConvention =
                      IF failed THEN missing.garbage ELSE chosen]
            ELSE conflict.D
        named == IF inClass /\ (isMethod \/ VD.kind = "Var")
                 THEN inferObjCName(attached)
                 ELSE Named(attached, <<>>)
        sel == getObjCSelector(named.D)
        forbidden ==
            IF /\ inClass /\ isMethod
               /\ ~VD.isInstanceMember
               /\ isForbiddenSelector(sel, opts) # NoDiagID
            THEN <<Diag(isForbiddenSelector(sel, opts))>>
            ELSE <<>>
        inferred == markSwift3Inferred(named.D, conflict.why, opts)
    IN IF isObjC = None
       THEN Marked(markNotObjC(VD), <<>>, unchecked,
                   T.recordedObjCMethods, T.ObjCMethods, FALSE)
       ELSE IF failed /\ missing.abort
            THEN Marked(conflict.D, conflict.diags, checked,
                        T.recordedObjCMethods, T.ObjCMethods, TRUE)
       ELSE Marked(inferred.D,
                   conflict.diags \o named.diags \o forbidden
                       \o inferred.diags,
                   checked,
                   IF inClass /\ isMethod
                   THEN Append(T.recordedObjCMethods, sel)
                   ELSE T.recordedObjCMethods,
                   pushObjCMethod(VD, sel, T.ObjCMethods),
                   failed)

(***************************************************************************)
(* The calls of markAsObjC the model makes: Init draws the declaration,    *)
(* the reason and the convention, and the call is made up to MaxCalls      *)
(* times with the same arguments.                                          *)
(***************************************************************************)
\* the call markAsObjC(decl, isObjC, convention), about to be made; earlier
\* says whether a method g of the class and the file was marked before
ReadyToMark(decl, isObjC, convention, opts, earlier) ==
    /\ D = decl
    /\ pre = decl
    /\ args = [isObjC |-> isObjC, errorConvention |-> convention]
    /\ LangOpts = opts
    /\ pc = "ready"
    /\ op = "none"
    /\ reason = None
    /\ result = FALSE
    /\ errorConvention = NoConvention
    /\ Diags = <<>>
    /\ fatal = FALSE
    /\ Stdlib = FullStdlib
    /\ scanned = 0
    /\ HasCheckedBridgeFunctions = earlier
    /\ recordedObjCMethods = IF earlier THEN <<Sel(<<"g">>, 0)>> ELSE <<>>
    /\ ObjCMethods = IF earlier THEN <<Sel(<<"g">>, 0)>> ELSE <<>>
    /\ calls = 0
    /\ bridgeChecks = IF earlier THEN 1 ELSE 0
    /\ CIntegerTypes = {}
    /\ lookups = 0

\* no reason, or any of the reasons
MarkReasons == {None} \cup {ObjCReason(k) : k \in ObjCReasonKinds}

\* where the marked declarations are: in an @objc class, in an extension of
\* one, in an @objc protocol or at the top of a file
MarkContexts ==
    {ClassContext({}, FALSE, "ObjC"),
     ClassExtensionContext({}, {}, FALSE, "ObjC"),
     ProtocolContext(TRUE), FileContext}

\* declarations of every kind with @nonobjc and dynamic, for every reason
MarkedWithAttributes ==
    \E kind \in {"Func", "Accessor", "Destructor", "Var", "Subscript"},
       attrs \in SUBSET {"NonObjC", "Dynamic"}, dc \in MarkContexts,
       isObjC \in MarkReasons, s3 \in BOOLEAN,
       w \in Swift3ObjCInferenceWarnings, earlier \in BOOLEAN :
        ReadyToMark(
            MarkFields @@
                [(CASE kind = "Var" -> PlainVar
                    [] kind = "Subscript" -> PlainSubscript
                    [] OTHER -> [PlainFunc EXCEPT !.accessorKind =
                                    IF kind = "Accessor" THEN "Get"
                                    ELSE "NotAccessor"])
                 EXCEPT !.kind = kind, !.attrs = attrs, !.DC = dc],
            isObjC, NoConvention,
            [DefaultLangOpts EXCEPT !.EnableSwift3ObjCInference = s3,
                                    !.WarnSwift3ObjCInference = w],
            earlier)

\* what isRepresentableInObjC may have computed for a method
ComputedConventions ==
    {NoConvention,
     Convention("ZeroResult", 1, FALSE, FALSE, "NSErrorPointer", "ObjCBool"),
     Convention("NilResult", 0, FALSE, FALSE, "NSErrorPointer", NullType)}

\* methods and initializers, throwing or not, overriding or not, with a
\* computed convention or none
MarkedThrowing ==
    \E kind \in {"Func", "Constructor"}, t \in BOOLEAN, dc \in MarkContexts,
       o \in {NoDecl,
              OverriddenNamed(TRUE, Sel(<<"foo">>, 0), NoConvention),
              OverriddenNamed(TRUE, Sel(<<"foo">>, 0),
                              ImportedConvention(0, FALSE)),
              OverriddenNamed(FALSE, NoSelector,
                              ImportedConvention(1, TRUE))},
       conv \in ComputedConventions,
       k \in {"ExplicitlyObjC", "OverridesObjC", "MemberOfObjCSubclass"} :
        /\ o.exists => isClassOrClassExtensionContext(dc)
        /\ ReadyToMark(
               MarkFields @@
                   [PlainFunc EXCEPT !.kind = kind, !.hasThrows = t,
                                     !.DC = dc, !.overridden = o],
               ObjCReason(k), conv, DefaultLangOpts, FALSE)

\* methods, properties and subscripts with or without a name of their own,
\* overriding or not, witnessing requirements or not
MarkedNamed ==
    \E kind \in {"Func", "Var", "Subscript"},
       own \in {NoSelector, Sel(<<"foo">>, 0), Sel(<<"bar">>, 0)},
       objc \in BOOLEAN, implicit \in BOOLEAN,
       o \in {NoDecl,
              OverriddenNamed(TRUE, Sel(<<"foo">>, 0), NoConvention),
              OverriddenNamed(FALSE, NoSelector, NoConvention)},
       w \in WitnessLists,
       dc \in {ClassContext({}, FALSE, "ObjC"), ProtocolContext(TRUE)},
       k \in {"ExplicitlyObjC", "OverridesObjC", "WitnessToObjC",
              "MemberOfObjCSubclass"} :
        /\ own # NoSelector => objc
        /\ implicit => own # NoSelector
        /\ o.exists => isClassOrClassExtensionContext(dc)
        /\ ReadyToMark(
               [MarkFields EXCEPT !.selector = own,
                                  !.nameIsImplicit = implicit] @@
                   [(CASE kind = "Var" -> PlainVar
                       [] kind = "Subscript" -> PlainSubscript
                       [] OTHER -> PlainFunc)
                    EXCEPT !.attrs = IF objc THEN {"ObjC"} ELSE {},
                           !.overridden = o, !.witnessed = w, !.DC = dc],
               ObjCReason(k), NoConvention, DefaultLangOpts, FALSE)

\* class and instance methods with the selectors Swift does not permit for
\* class methods, and with others
MarkedClassMethods ==
    \E name \in {"load", "alloc", "initialize", "allocWithZone", "foo"},
       numArgs \in 0..2, instance \in BOOLEAN, v3 \in BOOLEAN,
       inFile \in BOOLEAN,
       dc \in {ClassContext({}, FALSE, "ObjC"), ProtocolContext(TRUE)} :
        ReadyToMark(
            [MarkFields EXCEPT !.defaultSelector = Sel(<<name>>, numArgs),
                               !.isInstanceMember = instance,
                               !.inSourceFile = inFile] @@
                [PlainFunc EXCEPT !.DC = dc],
            ObjCReason("ExplicitlyObjC"), NoConvention,
            [DefaultLangOpts EXCEPT !.isSwiftVersion3 = v3], FALSE)

InitMark ==
    \/ MarkedWithAttributes
    \/ MarkedThrowing
    \/ MarkedNamed
    \/ MarkedClassMethods

\* what happens when 'Missing error convention' is asserted in vain: the
\* process aborts, or a build without assertions reads whatever is there
MissingChoices ==
    {[abort |-> TRUE, garbage |-> NoConvention],
     [abort |-> FALSE, garbage |-> NoConvention],
     [abort |-> FALSE, garbage |-> ImportedConvention(1, TRUE)]}

CallMarkAsObjC ==
    /\ calls < MaxCalls
    /\ ~fatal
    /\ \E missing \in MissingChoices :
        LET marked ==
                markAsObjC(D, args.isObjC, args.errorConvention, LangOpts,
                           [HasCheckedBridgeFunctions |->
                                HasCheckedBridgeFunctions,
                            bridgeChecks |-> bridgeChecks,
                            recordedObjCMethods |-> recordedObjCMethods,
                            ObjCMethods |-> ObjCMethods],
                           missing)
        IN /\ D' = marked.D
           /\ Diags' = marked.diags
           /\ HasCheckedBridgeFunctions' = marked.HasCheckedBridgeFunctions
           /\ bridgeChecks' = marked.bridgeChecks
           /\ recordedObjCMethods' = marked.recordedObjCMethods
           /\ ObjCMethods' = marked.ObjCMethods
           /\ fatal' = marked.fatal
    /\ pre' = D
    /\ calls' = calls + 1
    /\ pc' = "done"
    /\ op' = "markAsObjC"
    /\ UNCHANGED <<LangOpts, args, reason, result, errorConvention, Stdlib,
                   scanned, CIntegerTypes, lookups>>

NextMark == CallMarkAsObjC

SpecMark == InitMark /\ [][NextMark]_vars

(***************************************************************************)
(* The checks followed by markAsObjC: a function isRepresentableInObjC     *)
(* accepted is marked with the reason it was checked for and the           *)
(* convention the check left in its out-parameter.                         *)
(***************************************************************************)
CallMarkAsObjC_Checked ==
    /\ pc = "done"
    /\ op = "isRepresentableInObjC"
    /\ D.kind \in AbstractFunctionKinds
    /\ result
    /\ ~fatal
    /\ \E missing \in MissingChoices :
        LET named == IF D.overridden.exists
                     THEN [selector |-> Sel(<<"foo">>, 0)] @@ D.overridden
                     ELSE D.overridden
            marked ==
                markAsObjC([MarkFields @@ D EXCEPT !.overridden = named],
                           ObjCReason(args.reason), errorConvention,
                           LangOpts,
                           [HasCheckedBridgeFunctions |->
                                HasCheckedBridgeFunctions,
                            bridgeChecks |-> bridgeChecks,
                            recordedObjCMethods |-> recordedObjCMethods,
                            ObjCMethods |-> ObjCMethods],
                           missing)
        IN /\ D' = marked.D
           /\ Diags' = marked.diags
           /\ HasCheckedBridgeFunctions' = marked.HasCheckedBridgeFunctions
           /\ bridgeChecks' = marked.bridgeChecks
           /\ recordedObjCMethods' = marked.recordedObjCMethods
           /\ ObjCMethods' = marked.ObjCMethods
           /\ fatal' = marked.fatal
    /\ calls' = calls + 1
    /\ pc' = "marked"
    /\ op' = "markAsObjC"
    /\ UNCHANGED <<LangOpts, pre, args, reason, result, errorConvention,
                   Stdlib, scanned, CIntegerTypes, lookups>>

NextRepr ==
    \/ CallShouldDiagnoseObjCReason
    \/ CallIsParamListRepresentableInObjC
    \/ CallIsRepresentableInObjC
    \/ CallIsRepresentableInObjC_Var
    \/ CallIsRepresentableInObjC_Subscript
    \/ CallCanBeRepresentedInObjC
    \/ CallMarkAsObjC_Checked

SpecRepr == InitRepr /\ [][NextRepr]_vars

(***************************************************************************)
(* The cache of the C integer types: isCIntegerType is called up to       *)
(* MaxQueries times in a process whose standard library declares some of  *)
(* the mapped integer types, or none.                                     *)
(***************************************************************************)
\* the names fillObjCRepresentableTypeCache looks up: some of the integer
\* types of BuiltinMappedTypes.def
StdlibTypeNames == {"CInt", "CLong", "CChar", "CShort"}

\* a mutant of fillObjCRepresentableTypeCache: the library is searched
\* once, whatever was found
fillObjCRepresentableTypeCache_Once(cache, lib, n) ==
    IF cache # {} \/ n > 0 THEN [CIntegerTypes |-> cache, lookups |-> n]
    ELSE [CIntegerTypes |-> lib.integerTypes \cap StdlibTypeNames,
          lookups |-> n + 1]

\* TypeChecker::fillObjCRepresentableTypeCache: the cache, and the number
\* of searches of the library, after it
fillObjCRepresentableTypeCache(cache, lib, n) ==
    IF cache # {} THEN [CIntegerTypes |-> cache, lookups |-> n]
    ELSE [CIntegerTypes |-> lib.integerTypes \cap StdlibTypeNames,
          lookups |-> n + 1]

\* TypeChecker::isCIntegerType
isCIntegerType(cache, lib, n, T) ==
    LET filled == IF cache = {}
                  THEN fillObjCRepresentableTypeCache(cache, lib, n)
                  ELSE [CIntegerTypes |-> cache, lookups |-> n]
    IN [result |-> T \in filled.CIntegerTypes] @@ filled

InitCache ==
    \E found \in SUBSET StdlibTypeNames :
        /\ D = PlainFunc
        /\ pre = PlainFunc
        /\ args = [T |-> "none"]
        /\ LangOpts = DefaultLangOpts
        /\ pc = "ready"
        /\ op = "none"
        /\ reason = None
        /\ result = FALSE
        /\ errorConvention = NoConvention
        /\ Diags = <<>>
        /\ fatal = FALSE
        /\ Stdlib = [integerTypes |-> found] @@ FullStdlib
        /\ scanned = 0
        /\ NothingMarked

CallIsCIntegerType ==
    /\ calls < MaxQueries
    /\ \E T \in StdlibTypeNames \cup {"String"} :
        LET r == isCIntegerType(CIntegerTypes, Stdlib, lookups, T)
        IN /\ CIntegerTypes' = r.CIntegerTypes
           /\ lookups' = r.lookups
           /\ result' = r.result
           /\ args' = [T |-> T]
    /\ calls' = calls + 1
    /\ pc' = "done"
    /\ op' = "isCIntegerType"
    /\ UNCHANGED <<LangOpts, D, pre, reason, errorConvention, Diags, fatal,
                   Stdlib, scanned, HasCheckedBridgeFunctions,
                   recordedObjCMethods, ObjCMethods, bridgeChecks>>

NextCache == CallIsCIntegerType

SpecCache == InitCache /\ [][NextCache]_vars

(***************************************************************************)
(* Properties of the reason inference (SpecInfer).                         *)
(***************************************************************************)
Inferring == pc = "done" /\ op = "shouldMarkAsObjC"

InferringMember == Inferring /\ pre.kind # "Class"

InferringClass == Inferring /\ pre.kind = "Class"

DiagIds == {Diags[i].id : i \in DOMAIN Diags}

\* The rules (a) to (h) of the inference, in the order the specification
\* gives them, as the numbers 1 to 12: whether rule i matches the call, ...
RuleMatches(i) ==
    LET inClass == \/ pre.DC.kind = "Class"
                   \/ (pre.DC.kind = "Extension" /\ pre.DC.extendsClass)
        canInferImplicit ==
            /\ ~pre.isInvalid
            /\ ~pre.isOperator
            /\ (pre.isImplicit => args.allowImplicit)
            /\ pre.access > FilePrivate
    IN CASE i = 1 -> "ObjC" \in pre.attrs
         [] i = 2 -> "IBOutlet" \in pre.attrs
         [] i = 3 -> "IBAction" \in pre.attrs
         [] i = 4 -> "IBInspectable" \in pre.attrs
         [] i = 5 -> "GKInspectable" \in pre.attrs
         [] i = 6 -> "NSManaged" \in pre.attrs
         [] i = 7 -> pre.DC.kind = "Protocol" /\ pre.DC.protocolIsObjC
         [] i = 8 -> \/ "NonObjC" \in pre.attrs
                     \/ (pre.DC.kind = "Extension"
                         /\ "NonObjC" \in pre.DC.extAttrs)
         [] i = 9 -> /\ pre.DC.kind = "Extension" /\ pre.DC.extendsClass
                     /\ "ObjC" \in pre.DC.extAttrs
         [] i = 10 -> /\ inClass /\ "ObjCMembers" \in pre.DC.classAttrs
                      /\ canInferImplicit
         [] i = 11 -> pre.overridden.exists /\ pre.overridden.isObjC
         [] i = 12 -> inClass /\ Len(pre.witnessed) > 0

\* ... and what the rule decides
RuleOutcome(i) ==
    CASE i = 1 -> [kind |-> "ExplicitlyObjC", req |-> NoReq]
      [] i = 2 -> [kind |-> "ExplicitlyIBOutlet", req |-> NoReq]
      [] i = 3 -> [kind |-> "ExplicitlyIBAction", req |-> NoReq]
      [] i = 4 -> [kind |-> "ExplicitlyIBInspectable", req |-> NoReq]
      [] i = 5 -> [kind |-> "ExplicitlyGKInspectable", req |-> NoReq]
      [] i = 6 -> [kind |-> "ExplicitlyNSManaged", req |-> NoReq]
      [] i = 7 -> [kind |-> "MemberOfObjCProtocol", req |-> NoReq]
      [] i = 8 -> None
      [] i = 9 -> [kind |-> "MemberOfObjCExtension", req |-> NoReq]
      [] i = 10 -> [kind |-> "MemberOfObjCMembersClass", req |-> NoReq]
      [] i = 11 -> [kind |-> "OverridesObjC", req |-> NoReq]
      [] i = 12 -> [kind |-> "WitnessToObjC", req |-> pre.witnessed[1]]

FirstRule(i) == RuleMatches(i) /\ \A j \in 1..(i - 1) : ~RuleMatches(j)

NoRuleMatches == \A i \in 1..12 : ~RuleMatches(i)

\* C2: for a non-class declaration the inference returns the outcome of the
\* first rule that matches, in the order (a) @objc, (b) IBOutlet, IBAction,
\* IBInspectable, GKInspectable, NSManaged, (c) member of an @objc protocol,
\* (d) @nonobjc on the declaration or its extension, (e) member of an @objc
\* class extension, (f) member of an @objcMembers class that can be inferred
\* implicitly, (g) override of an @objc declaration, (h) witness, in a class,
\* of an @objc requirement (the first one found), whatever later rules match.
C2_FirstMatchingRule ==
    InferringMember =>
        \A i \in 1..12 : FirstRule(i) => reason = RuleOutcome(i)

\* a declaration in a @nonobjc extension that overrides an @objc declaration
\* and is 'dynamic' is not exposed: rule (d) came before (g) and (i)
C2_Witness ==
    /\ InferringMember
    /\ FirstRule(8)
    /\ "NonObjC" \notin pre.attrs
    /\ RuleMatches(11)
    /\ "Dynamic" \in pre.attrs
    /\ reason = None

\* C3, as the specification states it: a class is exposed if and only if it
\* carries @objc, or carries none and its ancestry is ObjC or
\* ObjCWithSwiftRoot; with @objc it is exposed whatever its ancestry, its
\* name and its genericity.
C3_ExposedIffAttributeOrAncestry ==
    InferringClass =>
        (reason # None <=>
            \/ "ObjC" \in pre.attrs
            \/ pre.ancestry \in {"ObjC", "ObjCWithSwiftRoot"})

\* the @objc of a class that only names it at run time
NamesRuntimeOnly ==
    /\ "ObjC" \in pre.attrs
    /\ pre.ancestry = "ObjCMembers"
    /\ pre.objcName # NoName
    /\ ~pre.isGenericContext

\* C3, amended: a class is exposed if and only if it carries an @objc that is
\* not demoted, or carries none and its ancestry is ObjC or ObjCWithSwiftRoot.
\* With generic ancestry a named @objc on a class with no generic context of
\* its own is demoted to a runtime name: the class is not exposed and nothing
\* is diagnosed; any other @objc on a class with generic ancestry is flagged
\* with an error and still exposes the class.
C3_ExposedUnlessDemoted ==
    InferringClass =>
        /\ reason # None <=>
              \/ "ObjC" \in pre.attrs /\ ~NamesRuntimeOnly
              \/ "ObjC" \notin pre.attrs
                 /\ pre.ancestry \in {"ObjC", "ObjCWithSwiftRoot"}
        /\ "ObjC" \in pre.attrs /\ ~NamesRuntimeOnly =>
              reason.kind = "ExplicitlyObjC"
        /\ "ObjC" \notin pre.attrs /\ reason # None =>
              reason.kind = "ImplicitlyObjC"
        /\ NamesRuntimeOnly =>
              "ObjCRuntimeName" \in D.attrs /\ Diags = <<>>
        /\ "ObjC" \in pre.attrs /\ pre.ancestry = "ObjCMembers" =>
              ("objc_for_generic_class" \in DiagIds <=> ~NamesRuntimeOnly)

\* a named @objc on a non-generic class with generic ancestry: not exposed
C3_Witness ==
    /\ InferringClass
    /\ NamesRuntimeOnly
    /\ reason = None
    /\ "ObjCRuntimeName" \in D.attrs

\* C4: a non-class declaration that matches none of the rules and is not
\* 'dynamic' is not exposed when Swift 3 inference is off; when it is on, it
\* is exposed if and only if it can be inferred implicitly (valid, no
\* operator, not implicit unless allowImplicit, access above file-private)
\* and is in a class that is not foreign and whose ancestry is not NonObjC,
\* and then as ImplicitlyObjC if it is implicit and as MemberOfObjCSubclass
\* if not.
C4_LegacyInference ==
    InferringMember /\ NoRuleMatches /\ "Dynamic" \notin pre.attrs =>
        LET inferred ==
                /\ ~pre.isInvalid
                /\ ~pre.isOperator
                /\ (pre.isImplicit => args.allowImplicit)
                /\ pre.access > FilePrivate
                /\ pre.DC.kind \in {"Class", "Extension"}
                /\ (pre.DC.kind = "Extension" => pre.DC.extendsClass)
                /\ ~pre.DC.classIsForeign
                /\ pre.DC.classAncestry # "NonObjC"
        IN IF ~LangOpts.EnableSwift3ObjCInference
           THEN reason = None
           ELSE /\ reason # None <=> inferred
                /\ reason # None =>
                      reason = [kind |-> IF pre.isImplicit
                                         THEN "ImplicitlyObjC"
                                         ELSE "MemberOfObjCSubclass",
                                req |-> NoReq]

\* an implicit member of an NSObject subclass, inferred under Swift 3 rules
\* because implicit declarations were allowed
C4_Witness ==
    /\ InferringMember
    /\ NoRuleMatches
    /\ LangOpts.EnableSwift3ObjCInference
    /\ pre.isImplicit
    /\ args.allowImplicit
    /\ reason.kind = "ImplicitlyObjC"

DynamicOnly ==
    /\ InferringMember
    /\ NoRuleMatches
    /\ "Dynamic" \in pre.attrs

\* C5, as the specification states it: a non-class declaration that matches
\* none of the rules (a) to (h) and is 'dynamic' is always exposed: silently
\* as ImplicitlyObjC when 'dynamic' is implicit; as ExplicitlyDynamic with a
\* deprecation warning when it is written and Swift 3 inference is on; as
\* ImplicitlyObjC with an error when it is written and Swift 3 inference is
\* off.
C5_DynamicAlwaysWarns ==
    DynamicOnly =>
        /\ reason # None
        /\ pre.dynamicImplicit =>
              reason.kind = "ImplicitlyObjC" /\ Diags = <<>>
        /\ ~pre.dynamicImplicit /\ LangOpts.EnableSwift3ObjCInference =>
              /\ reason.kind = "ExplicitlyDynamic"
              /\ Diags = <<Diag("objc_inference_swift3_dynamic")>>
        /\ ~pre.dynamicImplicit /\ ~LangOpts.EnableSwift3ObjCInference =>
              /\ reason.kind = "ImplicitlyObjC"
              /\ Diags = <<Diag("dynamic_requires_objc")>>

\* C5, amended: as above, but the deprecation warning of a written 'dynamic'
\* under Swift 3 inference is emitted if and only if the Swift 3 inference
\* warnings are on (at any level) and the declaration is not a getter or a
\* setter; otherwise ExplicitlyDynamic is inferred silently.
C5_DynamicWarnsWhenAsked ==
    DynamicOnly =>
        /\ reason # None
        /\ pre.dynamicImplicit =>
              reason.kind = "ImplicitlyObjC" /\ Diags = <<>>
        /\ ~pre.dynamicImplicit /\ LangOpts.EnableSwift3ObjCInference =>
              /\ reason.kind = "ExplicitlyDynamic"
              /\ Diags =
                    IF /\ LangOpts.WarnSwift3ObjCInference # "None"
                       /\ ~(pre.kind = "Accessor"
                            /\ pre.accessorKind \in {"Get", "Set"})
                    THEN <<Diag("objc_inference_swift3_dynamic")>>
                    ELSE <<>>
        /\ ~pre.dynamicImplicit /\ ~LangOpts.EnableSwift3ObjCInference =>
              /\ reason.kind = "ImplicitlyObjC"
              /\ Diags = <<Diag("dynamic_requires_objc")>>

\* a written 'dynamic' outside Swift 3 inference: an error, and exposed
C5_Witness ==
    /\ DynamicOnly
    /\ ~pre.dynamicImplicit
    /\ ~LangOpts.EnableSwift3ObjCInference
    /\ reason.kind = "ImplicitlyObjC"
    /\ Diags = <<Diag("dynamic_requires_objc")>>

SilentReasons ==
    {"MemberOfObjCSubclass", "MemberOfObjCMembersClass", "Accessor"}

InspectableReasons == {"ExplicitlyIBInspectable", "ExplicitlyGKInspectable"}

AskedWhetherToDiagnose == pc = "done" /\ op = "shouldDiagnoseObjCReason"

FlippedLangOpts ==
    [LangOpts EXCEPT !.EnableSwift3ObjCInference = ~@]

\* C1: shouldDiagnoseObjCReason is false for the three silent reasons, the
\* negation of the Swift 3 inference flag for the two inspectable reasons
\* and true for every other reason, whatever the other options are; it
\* changes nothing; flipping the flag changes its result for the two
\* inspectable reasons and for no other.
C1_ShouldDiagnoseTable ==
    AskedWhetherToDiagnose =>
        /\ result = (CASE args.reason \in SilentReasons -> FALSE
                       [] args.reason \in InspectableReasons ->
                              ~LangOpts.EnableSwift3ObjCInference
                       [] OTHER -> TRUE)
        /\ (shouldDiagnoseObjCReason(args.reason, FlippedLangOpts) # result)
               <=> args.reason \in InspectableReasons
        /\ D = pre
        /\ Diags = <<>>

\* C1 happens: the question is asked of an inspectable reason with Swift 3
\* inference on, and the answer is no.
C1_Witness ==
    /\ AskedWhetherToDiagnose
    /\ args.reason = "ExplicitlyIBInspectable"
    /\ LangOpts.EnableSwift3ObjCInference
    /\ LangOpts.isSwiftVersion3
    /\ ~result

CheckedParams == pc = "done" /\ op = "isParamListRepresentableInObjC"

IsStructural(i) == pre.params[i].isVariadic \/ pre.params[i].isInOut

\* the overridden method's error convention says that parameter i, counted
\* from 1, is the error parameter replaced by '()'
ReplacesWithVoid(i) ==
    /\ isVoid(pre.params[i].type)
    /\ pre.overridden.exists
    /\ pre.overridden.foreignErrorConvention.kind # "None"
    /\ pre.overridden.foreignErrorConvention.isReplaced
    /\ pre.overridden.foreignErrorConvention.errorParameterIndex = i - 1

SameWhateverTheReason ==
    \A k \in ObjCReasonKinds, s3 \in BOOLEAN :
        result = isParamListRepresentableInObjC(
                     pre, pre.params, k, Swift3Inference(s3)).result

ParamPasses(i) ==
    /\ ~IsStructural(i)
    /\ \/ isRepresentableIn(pre.params[i].type)
       \/ pre.hasThrows /\ ReplacesWithVoid(i)

CheckedFunction ==
    /\ pc = "done"
    /\ op = "isRepresentableInObjC"
    /\ pre.kind \in AbstractFunctionKinds

\* C8: isRepresentableInObjC of a function returns false whenever one of
\* its parameters does not pass, init(x: ()) with its long selector
\* excepted, for every reason.
C8_FalseWhenParamsFail ==
    (/\ CheckedFunction
     /\ ~pre.isObjCZeroParameterWithLongSelector
     /\ \E i \in DOMAIN pre.params : ~ParamPasses(i))
        => ~result

Min(a, b) == IF a <= b THEN a ELSE b

\* the first of the set hits of parameters, or the one after the last
FirstOf(hits) ==
    IF hits = {} THEN Len(pre.params) + 1
    ELSE CHOOSE i \in hits : \A j \in hits : i <= j

FirstStructural == FirstOf({i \in DOMAIN pre.params : IsStructural(i)})

ParamFails(i) == ~ParamPasses(i)

FirstFailure == FirstOf({i \in DOMAIN pre.params : ParamFails(i)})

ParamTypeDiags ==
    {"objc_invalid_on_func_param_type",
     "objc_invalid_on_func_single_param_type"}

StructuralDiags ==
    {"objc_invalid_on_func_variadic", "objc_invalid_on_func_inout"}

Emitted(ids) == {j \in DOMAIN Diags : Diags[j].id \in ids}

\* C9: with diagnostics on, isParamListRepresentableInObjC emits one
\* parameter-type diagnostic for each failing parameter before the first
\* variadic or in-out one, naming it, then one diagnostic for that variadic
\* or in-out parameter, and looks at no later parameter; with diagnostics
\* off it emits nothing and stops at the first failing parameter.
C9_ParamDiagnostics ==
    CheckedParams =>
        IF shouldDiagnoseObjCReason(args.reason, LangOpts)
        THEN /\ Cardinality(Emitted(ParamTypeDiags))
                    = Cardinality({i \in 1..(FirstStructural - 1) :
                                      ParamFails(i)})
             /\ Len(pre.params) > 1 =>
                    \A i \in DOMAIN pre.params :
                        (i < FirstStructural /\ ParamFails(i))
                            <=> \E j \in Emitted(ParamTypeDiags) :
                                    Diags[j].arg = i
             /\ Cardinality(Emitted(StructuralDiags))
                    = (IF FirstStructural <= Len(pre.params) THEN 1 ELSE 0)
             /\ \A j \in Emitted(StructuralDiags) :
                    /\ Diags[j].loc = FirstStructural
                    /\ Diags[j].id =
                           (IF pre.params[FirstStructural].isVariadic
                            THEN "objc_invalid_on_func_variadic"
                            ELSE "objc_invalid_on_func_inout")
                    /\ \A l \in Emitted(ParamTypeDiags) : l < j
             /\ scanned = Min(FirstStructural, Len(pre.params))
        ELSE /\ Diags = <<>>
             /\ scanned = Min(FirstFailure, Len(pre.params))

\* C9 happens: of three parameters the first has a Swift struct type, the
\* second is variadic and the third has a Swift struct type again; one
\* parameter-type diagnostic and the variadic one are emitted and the third
\* parameter is not looked at.
C9_Witness ==
    /\ CheckedParams
    /\ shouldDiagnoseObjCReason(args.reason, LangOpts)
    /\ Len(pre.params) = 3
    /\ ParamFails(1) /\ ~IsStructural(1)
    /\ pre.params[2].isVariadic
    /\ ~isRepresentableIn(pre.params[3].type)
    /\ Cardinality(Emitted(ParamTypeDiags)) = 1
    /\ Cardinality(Emitted(StructuralDiags)) = 1
    /\ scanned = 2

\* the reason a finished check was made for
CheckedReason ==
    IF op = "canBeRepresentedInObjC" THEN "MemberOfObjCMembersClass"
    ELSE args.reason

\* C10: when shouldDiagnoseObjCReason is false for the reason, none of the
\* three isRepresentableInObjC nor canBeRepresentedInObjC emits a
\* diagnostic, whatever the declaration.
C10_SilentReasonsEmitNothing ==
    (/\ pc = "done"
     /\ op \in {"isRepresentableInObjC", "canBeRepresentedInObjC"}
     /\ ~shouldDiagnoseObjCReason(CheckedReason, LangOpts))
        => Diags = <<>>

(***************************************************************************)
(* Properties of the error convention of throwing functions (SpecRepr).    *)
(***************************************************************************)
Diagnosing == shouldDiagnoseObjCReason(args.reason, LangOpts)

AllParamsPass == \A i \in DOMAIN pre.params : ParamPasses(i)

\* the check of a throwing function or initializer got as far as choosing
\* the error convention
CheckedThrowing ==
    /\ CheckedFunction
    /\ pre.hasThrows
    /\ pre.kind \in {"Func", "Constructor"}
    /\ ~pre.isOperator
    /\ ~pre.hasGenericParams
    /\ pre.DC.classForeignKind = "Normal"
    /\ pre.DC.kind # "Extension"
    /\ pre.isObjCZeroParameterWithLongSelector \/ AllParamsPass \/ Diagnosing
    /\ pre.kind = "Func" =>
           \/ pre.resultType.shape \in {"Error", "Void", "Uninhabited"}
           \/ pre.resultType.repr # "None"

ThrowingVoidFunction ==
    CheckedThrowing /\ pre.kind = "Func" /\ pre.resultType.shape = "Void"

\* C11 as stated: a throwing function with a Void result gets the ZeroResult
\* convention with ObjCBool as its result type.
C11_ZeroResultOfObjCBool ==
    ThrowingVoidFunction =>
        /\ result
        /\ errorConvention.kind = "ZeroResult"
        /\ errorConvention.resultType = "ObjCBool"

\* C11, amended: the result type is ObjCBool if there is one and Swift.Bool
\* if there is not; with neither the function is not representable.
C11_ZeroResultOfObjCBoolOrBool ==
    ThrowingVoidFunction =>
        IF Stdlib.ObjCBool \/ Stdlib.Bool
        THEN /\ result
             /\ errorConvention.kind = "ZeroResult"
             /\ errorConvention.resultType =
                    (IF Stdlib.ObjCBool THEN "ObjCBool" ELSE "Bool")
        ELSE ~result /\ errorConvention = NoConvention

\* C11 happens: without ObjCBool the convention is ZeroResult of Swift.Bool.
C11_Witness ==
    /\ ThrowingVoidFunction
    /\ ~Stdlib.ObjCBool
    /\ Stdlib.Bool
    /\ result
    /\ errorConvention.kind = "ZeroResult"
    /\ errorConvention.resultType = "Bool"

BridgedKinds == {"Object", "Bridged", "StaticBridged", "BridgedError"}

\* the check fails, attaches nothing and, if the reason is diagnosed,
\* says so with the diagnostic id and not with other
RejectedWith(id, other) ==
    /\ ~result
    /\ errorConvention = NoConvention
    /\ ~fatal
    /\ IF Diagnosing
       THEN Cardinality(Emitted({id})) = 1 /\ Emitted({other}) = {}
       ELSE Diags = <<>>

\* C12: a throwing non-failable initializer gets NilResult; so does a
\* throwing function with a non-optional result bridged to a class; an
\* optional of such a result is rejected with the diagnostic of its own and
\* every other result but Void with the generic one.
C12_ConventionByResultType ==
    CheckedThrowing =>
        IF pre.kind = "Constructor"
        THEN pre.failability = "OTK_None" =>
                 result /\ errorConvention.kind = "NilResult"
        ELSE IF pre.resultType.shape = "Void" THEN TRUE
        ELSE IF /\ pre.resultType.shape # "Optional"
                /\ pre.resultType.repr \in BridgedKinds
             THEN result /\ errorConvention.kind = "NilResult"
        ELSE IF /\ pre.resultType.shape = "Optional"
                /\ pre.resultType.objectRepr \in BridgedKinds
             THEN RejectedWith("objc_invalid_on_throwing_optional_result",
                               "objc_invalid_on_throwing_result")
        ELSE RejectedWith("objc_invalid_on_throwing_result",
                          "objc_invalid_on_throwing_optional_result")

\* C12 happens: a throwing function that returns an optional statically
\* bridged type is rejected with the diagnostic for optional results.
C12_Witness ==
    /\ CheckedThrowing
    /\ pre.kind = "Func"
    /\ pre.resultType.shape = "Optional"
    /\ pre.resultType.objectRepr = "StaticBridged"
    /\ Diagnosing
    /\ ~result
    /\ "objc_invalid_on_throwing_optional_result"
           \in {Diags[i].id : i \in DOMAIN Diags}

NoBoolAtAll ==
    ThrowingVoidFunction /\ ~Stdlib.ObjCBool /\ ~Stdlib.Bool

ThrowingFailableInit ==
    /\ CheckedThrowing
    /\ pre.kind = "Constructor"
    /\ pre.failability # "OTK_None"

\* C14: a throwing failable initializer is rejected: the check returns
\* false, leaves errorConvention empty and emits
\* objc_invalid_on_failing_init when the reason is diagnosed.
C14_ThrowingFailableInitRejected ==
    ThrowingFailableInit =>
        /\ ~result
        /\ errorConvention = NoConvention
        /\ ~fatal
        /\ IF Diagnosing
           THEN Cardinality(Emitted({"objc_invalid_on_failing_init"})) = 1
           ELSE Diags = <<>>

\* C14 happens: the caller's errorConvention held a convention before the
\* call and is empty after the throwing failable initializer is rejected.
C14_Witness ==
    /\ ThrowingFailableInit
    /\ Diagnosing
    /\ ~result
    /\ args.errorConvention # NoConvention
    /\ errorConvention = NoConvention
    /\ "objc_invalid_on_failing_init" \in {Diags[i].id : i \in DOMAIN Diags}

IsClosure(param) ==
    \/ param.type.shape = "Function"
    \/ param.type.shape = "Optional" /\ param.type.objectShape = "Function"

\* how many of the first n parameters are closures at the end of them
TrailingClosures(n) ==
    Cardinality({k \in 1..n :
                    \A j \in (n - k + 1)..n : IsClosure(pre.params[j])})

HasSelector == "ObjC" \in pre.attrs /\ pre.selectorPieces # <<>>

ThrowingWithConvention == CheckedThrowing /\ result

\* C15 as stated: without a name in @objc the error parameter index is the
\* number of parameters less the closures at the end.
C15_IndexSkipsTrailingClosures ==
    (ThrowingWithConvention /\ ~HasSelector) =>
        errorConvention.errorParameterIndex
            = Len(pre.params) - TrailingClosures(Len(pre.params))

\* the parameters counted: init(x: ()) with its long selector has none
CountedParams ==
    IF pre.kind = "Constructor" /\ pre.isObjCZeroParameterWithLongSelector
    THEN Len(pre.params) - 1
    ELSE Len(pre.params)

DefaultErrorIndex == CountedParams - TrailingClosures(CountedParams)

\* C15, amended: the parameter of init(x: ()) is not counted.
C15_IndexSkipsTrailingClosuresOfCounted ==
    (ThrowingWithConvention /\ ~HasSelector) =>
        /\ errorConvention.errorParameterIndex = DefaultErrorIndex
        /\ errorConvention.errorParameterIndex \in 0..Len(pre.params)

\* C15 happens: of two parameters the last is an optional closure and the
\* error goes at index 1.
C15_Witness ==
    /\ ThrowingWithConvention
    /\ ~HasSelector
    /\ Len(pre.params) = 2
    /\ pre.params[2].type.shape = "Optional"
    /\ IsClosure(pre.params[2])
    /\ errorConvention.errorParameterIndex = 1

ErrorPieces ==
    {i \in DOMAIN pre.selectorPieces : pre.selectorPieces[i] = <<"error">>}

RightmostErrorPiece == CHOOSE i \in ErrorPieces : \A j \in ErrorPieces : j <= i

EndsWithError(piece) == piece[Len(piece)] = "Error"

\* C16 as stated: with a selector the index is that of the rightmost piece
\* "error", else that of the last piece if its last word is "Error", else the
\* default.
C16_IndexFromLastPiece ==
    (ThrowingWithConvention /\ HasSelector) =>
        errorConvention.errorParameterIndex =
            (IF ErrorPieces # {} THEN RightmostErrorPiece - 1
             ELSE IF EndsWithError(
                         pre.selectorPieces[Len(pre.selectorPieces)])
                  THEN Len(pre.selectorPieces) - 1
             ELSE DefaultErrorIndex)

\* C16, amended: it is the first piece whose last word is looked at.
C16_IndexFromFirstPiece ==
    (ThrowingWithConvention /\ HasSelector) =>
        errorConvention.errorParameterIndex =
            (IF ErrorPieces # {} THEN RightmostErrorPiece - 1
             ELSE IF EndsWithError(pre.selectorPieces[1]) THEN 0
             ELSE DefaultErrorIndex)

\* C16 happens: the selector is fooError:bar: and the error goes at index 0
\* although there are two parameters.
C16_Witness ==
    /\ ThrowingWithConvention
    /\ HasSelector
    /\ Len(pre.selectorPieces) = 2
    /\ ErrorPieces = {}
    /\ EndsWithError(pre.selectorPieces[1])
    /\ Len(pre.params) = 2
    /\ ~IsClosure(pre.params[2])
    /\ errorConvention.errorParameterIndex = 0

(***************************************************************************)
(* Properties of markAsObjC (SpecMark).                                    *)
(***************************************************************************)
\* markAsObjC has returned, or has aborted
MarkCalled == pc = "done" /\ op = "markAsObjC"

\* markAsObjC was called with a reason
MarkedWithReason == MarkCalled /\ args.isObjC # None

\* the places of the diagnostics of the last call with one of the ids
Emissions(ids) == {i \in DOMAIN Diags : Diags[i].id \in ids}

\* C17: markAsObjC without a reason sets isObjC to false, makes the
\* 'dynamic' attribute invalid if there is one and changes nothing else:
\* no name, no convention, no diagnostic, and the bridging flag, the table
\* of the class and the table of the file are as they were.
C17_AbsentReasonOnlyUnmarks ==
    [][/\ args.isObjC = None
       /\ calls' = calls + 1
       => /\ D' = [D EXCEPT !.isObjC = FALSE,
                            !.attrs = @ \ {"Dynamic"},
                            !.invalidAttrs =
                                @ \cup (D.attrs \cap {"Dynamic"})]
          /\ Diags' = <<>>
          /\ ~fatal'
          /\ UNCHANGED <<HasCheckedBridgeFunctions, bridgeChecks,
                         recordedObjCMethods, ObjCMethods>>]_vars

\* C17: a dynamic declaration was unmarked after a method was recorded
C17_Witness ==
    /\ MarkCalled
    /\ args.isObjC = None
    /\ "Dynamic" \in pre.attrs
    /\ "Dynamic" \in D.invalidAttrs
    /\ ~D.isObjC
    /\ HasCheckedBridgeFunctions
    /\ recordedObjCMethods # <<>>
    /\ ObjCMethods # <<>>

\* the reason nonobjc_not_allowed is emitted with
ConflictReason ==
    IF shouldDiagnoseObjCReason(args.isObjC.kind, LangOpts)
    THEN args.isObjC.kind
    ELSE "ImplicitlyObjC"

\* C18: markAsObjC with a reason on a declaration with @nonobjc emits
\* nonobjc_not_allowed exactly once, whatever the reason (with
\* ImplicitlyObjC in place of a reason that is not diagnosed), makes the
\* attribute invalid and leaves the declaration @objc.
C18_NonObjCConflictDiagnosedOnce ==
    MarkedWithReason /\ "NonObjC" \in pre.attrs
    => /\ Cardinality(Emissions({"nonobjc_not_allowed"})) = 1
       /\ \A i \in Emissions({"nonobjc_not_allowed"}) :
              Diags[i].attrKind = getObjCDiagnosticAttrKind(ConflictReason)
       /\ "NonObjC" \notin D.attrs
       /\ "NonObjC" \in D.invalidAttrs
       /\ D.isObjC

\* C18: the conflict was diagnosed for a reason that is not diagnosed
C18_Witness ==
    /\ MarkedWithReason
    /\ "NonObjC" \in pre.attrs
    /\ ~shouldDiagnoseObjCReason(args.isObjC.kind, LangOpts)
    /\ Emissions({"nonobjc_not_allowed"}) # {}
    /\ "NonObjC" \in D.invalidAttrs
    /\ D.isObjC

\* markAsObjC was called with a reason on a throwing method, and no
\* assertion of it failed
MarkedThrowingMethod ==
    /\ MarkedWithReason
    /\ pre.kind \in AbstractFunctionKinds
    /\ pre.hasThrows
    /\ ~fatal

\* the method overrides, in a class, a method with a stored convention
AdoptsBaseConvention ==
    /\ isClassOrClassExtensionContext(pre.DC)
    /\ pre.overridden.exists
    /\ pre.overridden.foreignErrorConvention # NoConvention

\* C19: a throwing method in a class that overrides a method with a stored
\* convention gets that convention and not the computed one; without an
\* override, or without a stored convention, it gets the computed one.  So
\* every throwing method marked @objc has a convention, and the one of an
\* override is the one of its base whenever the base has one.
C19_ConventionOfOverrideOrComputed ==
    MarkedThrowingMethod
    => /\ D.foreignErrorConvention # NoConvention
       /\ D.isObjC
       /\ AdoptsBaseConvention
          => D.foreignErrorConvention
                 = pre.overridden.foreignErrorConvention
       /\ ~AdoptsBaseConvention
          => D.foreignErrorConvention = args.errorConvention

\* C19: the convention of the base was attached in place of a different
\* computed one
C19_Witness ==
    /\ MarkedThrowingMethod
    /\ AdoptsBaseConvention
    /\ args.errorConvention # NoConvention
    /\ args.errorConvention # pre.overridden.foreignErrorConvention
    /\ D.foreignErrorConvention = pre.overridden.foreignErrorConvention

\* markAsObjC was called with a reason on a method or property that
\* overrides an @objc one, and no assertion of it failed
MarkedOverride ==
    /\ MarkedWithReason
    /\ ~fatal
    /\ pre.kind \in (AbstractFunctionKinds \ {"Destructor"}) \cup {"Var"}
    /\ pre.overridden.exists
    /\ pre.overridden.isObjC

\* the declaration has a name written in its @objc attribute
ExplicitlyNamed(decl) == hasName(decl) /\ ~decl.nameIsImplicit

\* C20: after markAsObjC a method or property that overrides an @objc one
\* named N is named N; when it had a different name written in its @objc
\* attribute the mismatch is diagnosed, and when it had no written name
\* nothing is diagnosed.
C20_OverrideTakesNameOfBase ==
    MarkedOverride
    => LET N == pre.overridden.selector
           mismatches ==
               Emissions({"objc_override_method_selector_mismatch",
                          "objc_override_property_name_mismatch"})
       IN /\ getObjCSelector(D) = N
          /\ hasName(D)
          /\ ExplicitlyNamed(pre) /\ pre.selector # N => mismatches # {}
          /\ ~ExplicitlyNamed(pre) => mismatches = {}

\* C20: a property with a different written name was renamed and the
\* mismatch diagnosed
C20_Witness ==
    /\ MarkedOverride
    /\ pre.kind = "Var"
    /\ ExplicitlyNamed(pre)
    /\ pre.selector # pre.overridden.selector
    /\ D.selector = pre.overridden.selector
    /\ D.nameIsImplicit
    /\ Emissions({"objc_override_property_name_mismatch"}) # {}

\* markAsObjC was called with a reason on a method or property of a class
\* that has no name and no @objc declaration to take one from, and no
\* assertion of it failed
MarkedWitness ==
    /\ MarkedWithReason
    /\ ~fatal
    /\ isClassOrClassExtensionContext(pre.DC)
    /\ pre.kind \in (AbstractFunctionKinds \ {"Destructor"}) \cup {"Var"}
    /\ ~(pre.overridden.exists /\ pre.overridden.isObjC)
    /\ ~hasName(pre)

\* the requirements the declaration witnesses do not all have the name of
\* the first
WitnessesDisagree ==
    \E j \in DOMAIN pre.witnessed :
        getObjCRuntimeName(pre.witnessed[j])
            # getObjCRuntimeName(pre.witnessed[1])

\* one objc_ambiguous_inference and two candidates were emitted
AmbiguityDiagnosed ==
    /\ Cardinality(Emissions({"objc_ambiguous_inference"})) = 1
    /\ Cardinality(Emissions({"objc_ambiguous_inference_candidate"})) = 2

\* C21 as stated: when the requirements a declaration witnesses disagree
\* on the name, inferObjCName gives the declaration no name and emits one
\* ambiguity diagnostic and two candidates.
C21_AmbiguousWitnessesGiveNoName ==
    MarkedWitness /\ WitnessesDisagree
    => ~hasName(D) /\ AmbiguityDiagnosed

\* C21: when the requirements a declaration witnesses disagree on the
\* name, inferObjCName gives the declaration the name of the first
\* requirement, as an implicit name, and emits one ambiguity diagnostic,
\* two candidates and one suggestion of @nonobjc.
C21_AmbiguousWitnessesGiveFirstName ==
    MarkedWitness /\ WitnessesDisagree
    => /\ hasName(D)
       /\ D.selector = getObjCRuntimeName(pre.witnessed[1])
       /\ D.nameIsImplicit
       /\ AmbiguityDiagnosed
       /\ Cardinality(Emissions({"req_near_match_nonobjc"})) = 1

\* C21: a declaration witnessing requirements named differently was named
\* after the first
C21_Witness ==
    /\ MarkedWitness
    /\ WitnessesDisagree
    /\ Len(pre.witnessed) >= 2
    /\ D.selector = getObjCRuntimeName(pre.witnessed[1])
    /\ D.selector # getObjCRuntimeName(pre.witnessed[Len(pre.witnessed)])
    /\ Emissions({"objc_ambiguous_inference"}) # {}

\* markAsObjC was called a second time with the same reason and convention
\* on the declaration it had marked, and no assertion of it failed
MarkedAgain == MarkedWithReason /\ calls = 2 /\ ~fatal

\* C22: a second markAsObjC with the same reason and convention on a
\* declaration already marked leaves its Objective-C name and its error
\* convention as the first call left them.
C22_SecondMarkKeepsNameAndConvention ==
    MarkedAgain
    => /\ getObjCSelector(D) = getObjCSelector(pre)
       /\ hasName(D) = hasName(pre)
       /\ D.selector = pre.selector
       /\ D.nameIsImplicit = pre.nameIsImplicit
       /\ D.foreignErrorConvention = pre.foreignErrorConvention

\* C22: a throwing override named after its base and with the convention
\* of its base was marked again
C22_Witness ==
    /\ MarkedAgain
    /\ pre.overridden.exists
    /\ hasName(D)
    /\ D.nameIsImplicit
    /\ D.selector = pre.overridden.selector
    /\ D.foreignErrorConvention # NoConvention
    /\ D.foreignErrorConvention # args.errorConvention

\* the entries of the table of the file for the declaration
Registered ==
    {i \in DOMAIN ObjCMethods : ObjCMethods[i] = getObjCSelector(D)}

\* C23 as stated: a declaration of any kind that markAsObjC marks @objc is
\* in the table of its file under its Objective-C name, and after any
\* number of calls it is there once.
C23_RegisteredOnceWhateverTheKind ==
    MarkedWithReason /\ ~fatal /\ pre.inSourceFile
    => Cardinality(Registered) = 1

\* C23: markAsObjC with a reason appends a function, initializer,
\* destructor or accessor that has a source file to the table of the file
\* under its Objective-C name, once per call; a property, a subscript and
\* a declaration without a source file are never in the table.
C23_MethodsRegisteredOncePerCall ==
    MarkedWithReason /\ ~fatal
    => Cardinality(Registered) =
           IF pre.kind \in AbstractFunctionKinds /\ pre.inSourceFile
           THEN calls ELSE 0

\* C23: a method is in the table twice after two calls
C23_Witness ==
    /\ MarkedWithReason
    /\ ~fatal
    /\ pre.inSourceFile
    /\ pre.kind = "Func"
    /\ calls = 2
    /\ Cardinality(Registered) = 2

\* C24: over any sequence of calls of markAsObjC the bridging functions
\* are looked up at most once, they have been looked up exactly once after
\* a call that marks a declaration other than a destructor @objc, and the
\* flag says whether they were.
C24_BridgingCheckedOnce ==
    /\ bridgeChecks <= 1
    /\ HasCheckedBridgeFunctions <=> bridgeChecks = 1
    /\ MarkedWithReason /\ pre.kind # "Destructor" => bridgeChecks = 1

\* C24: a declaration was marked twice and the bridging functions were
\* looked up by the first call only
C24_Witness ==
    /\ MarkedWithReason
    /\ pre.kind # "Destructor"
    /\ calls = 2
    /\ recordedObjCMethods # <<>>
    /\ recordedObjCMethods[1] # Sel(<<"g">>, 0)
    /\ bridgeChecks = 1

\* the three diagnostics about the Swift 3 inference of @objc
Swift3Warnings ==
    {"objc_inference_swift3_objc_derived", "objc_inference_swift3_addobjc",
     "objc_inference_swift3_addnonobjc"}

\* C26: after markAsObjC with the reason MemberOfObjCSubclass every
\* declaration, also one with @nonobjc, has an @objc attribute marked as
\* inferred by Swift 3; the warnings about it are emitted only when
\* WarnSwift3ObjCInference is Complete and never for a getter or setter.
C26_SubclassMemberMarkedSwift3Inferred ==
    /\ MarkedWithReason
    /\ ~fatal
    /\ args.isObjC.kind = "MemberOfObjCSubclass"
    => /\ "ObjC" \in D.attrs
       /\ D.swift3Inferred
       /\ Emissions(Swift3Warnings) # {}
          => /\ LangOpts.WarnSwift3ObjCInference = "Complete"
             /\ ~isGetterOrSetter(pre)

\* the selectors that could be diagnosed: the names the marked class
\* methods have, with up to two arguments
CandidateSelectors ==
    {Sel(<<name>>, numArgs) :
        name \in {"load", "alloc", "initialize", "allocWithZone", "foo",
                  "bar", "f"},
        numArgs \in 0..2}

\* the selectors a class method must not have
ReservedSelectors ==
    {Sel(<<"load">>, 0), Sel(<<"alloc">>, 0), Sel(<<"initialize">>, 0),
     Sel(<<"allocWithZone">>, 1)}

\* the diagnostics of a class method with a reserved selector
NotPermitted ==
    {"objc_class_method_not_permitted",
     "objc_class_method_not_permitted_swift3_compat_warning"}

\* what is diagnosed, and how, when the selectors in reserved are the
\* reserved ones: a method of a class that is not an instance method is
\* diagnosed, once, iff its selector is reserved, as an error unless it is
\* initialize under Swift 3, which is a warning; and it is still @objc and
\* recorded in its class
ReservedDiagnosed(reserved) ==
    MarkedWithReason /\ ~fatal
    => LET sel == getObjCSelector(D)
           inClass == /\ isClassOrClassExtensionContext(pre.DC)
                      /\ pre.kind \in AbstractFunctionKinds
       IN /\ Cardinality(Emissions(NotPermitted)) =
                 IF inClass /\ ~pre.isInstanceMember /\ sel \in reserved
                 THEN 1 ELSE 0
          /\ \A i \in Emissions(NotPermitted) :
                 Diags[i].id =
                     IF sel.pieces[1] = "initialize"
                        /\ LangOpts.isSwiftVersion3
                     THEN "objc_class_method_not_permitted_swift3_compat_warning"
                     ELSE "objc_class_method_not_permitted"
          /\ D.isObjC
          /\ inClass => /\ recordedObjCMethods # <<>>
                        /\ recordedObjCMethods[Len(recordedObjCMethods)]
                               = sel

C28_UnreachableIsNotReached ==
    /\ pc = "done"
    /\ op \in {"isRepresentableInObjC", "canBeRepresentedInObjC"}
    => ~fatal

\* C29: isRepresentableInObjC(AFD, Reason, errorConvention) leaves a
\* convention in errorConvention iff it returns true and AFD throws and is
\* not an accessor, whatever errorConvention held before; after a false
\* return errorConvention is empty.  So markAsObjC, given that convention
\* for a throwing function the check accepted, finds a convention where it
\* asserts one and attaches it.
C29_ConventionIffAcceptedThrowing ==
    /\ (/\ pc = "done"
        /\ op = "isRepresentableInObjC"
        /\ pre.kind \in AbstractFunctionKinds
        /\ ~fatal)
       => /\ errorConvention # NoConvention
             <=> result /\ pre.hasThrows /\ pre.kind # "Accessor"
          /\ ~result => errorConvention = NoConvention
    /\ pc = "marked" /\ pre.hasThrows
       => /\ ~fatal
          /\ D.isObjC
          /\ D.foreignErrorConvention # NoConvention

\* C29: a throwing function checked with a convention already in the
\* out-parameter was accepted and marked, and has a convention
C29_Witness ==
    /\ pc = "marked"
    /\ pre.hasThrows
    /\ args.errorConvention # NoConvention
    /\ errorConvention # NoConvention
    /\ errorConvention # args.errorConvention
    /\ D.foreignErrorConvention # NoConvention
    /\ ~fatal

(***************************************************************************)
(* Properties of the cache of the C integer types (SpecCache).             *)
(***************************************************************************)
\* C25 as stated: over any sequence of calls of isCIntegerType the
\* standard library is searched by the first call only, also when that
\* search finds no type.
C25_LibrarySearchedOnce == lookups <= 1

\* C25: the standard library is searched by every call of isCIntegerType
\* that finds the cache empty: by the first call only when the search
\* finds a type, and by every call when it finds none.  The answer is
\* whether the type is one of those found.
C25_LibrarySearchedWhileCacheEmpty ==
    LET found == Stdlib.integerTypes \cap StdlibTypeNames
    IN /\ CIntegerTypes = IF calls = 0 THEN {} ELSE found
       /\ lookups = IF found = {} THEN calls
                    ELSE IF calls = 0 THEN 0 ELSE 1
       /\ pc = "done" => result = (args.T \in found)

\* C25: the library was searched a second time because the first search
\* found no type
C25_Witness ==
    /\ pc = "done"
    /\ op = "isCIntegerType"
    /\ Stdlib.integerTypes = {}
    /\ calls >= 2
    /\ lookups = calls
    /\ CIntegerTypes = {}
    /\ ~result

====
